---- MODULE Spec2Model ----
(***************************************************************************)
(* A model of the magnet-handler document store: the entry and database    *)
(* model, the JSON persistence layer (SaveDatabaseLocal, LoadJSONDatabase), *)
(* the merge engine (MergeDatabases) and the sync orchestrator             *)
(* (SyncWithRemote, SaveJSONDatabase) of src/unnamed/part_001.             *)
(***************************************************************************)
EXTENDS Integers, Sequences, FiniteSets, TLC

(***************************************************************************)
(* Bounds of the model.                                                    *)
(***************************************************************************)
\* number of content hashes the input databases and the updates draw from
NumHashes == 2
\* largest sequence id an input entry carries (0 is "no id")
MaxId == 2
\* largest number of entries the files of a store hold together
MaxEntries == 2
\* largest number of entries in the two input databases of a merge together
MaxMergeEntries == 3

HashNames == <<"h1", "h2", "h3", "h4">>
UuidNames == <<"u1", "u2", "u3", "u4">>
Hashes == {HashNames[i] : i \in 1..NumHashes}

Max(a, b) == IF a >= b THEN a ELSE b

(***************************************************************************)
(* Entry and database model (MagnetEntry, DatabaseMetadata,                *)
(* MagnetDatabase).  A Go map is a function whose domain is its key set.   *)
(***************************************************************************)
\* the zero value of MagnetEntry: what a lookup of an absent key returns
ZeroEntry ==
    [uuid |-> "", id |-> 0, title |-> "", hash |-> "", uri |-> <<>>,
     retry_count |-> 0]

\* the zero value of DatabaseMetadata; a digest is a tuple, <<>> the empty string
ZeroMetadata == [last_sequence |-> 0, last_modified |-> 0, checksum |-> <<>>]

EmptyMap == [h \in {} |-> ZeroEntry]

\* &MagnetDatabase{Added: make(map), Retry: make(map)}
EmptyDatabase == [metadata |-> ZeroMetadata, added |-> EmptyMap, retry |-> EmptyMap]

\* m[h] = e
MapPut(m, h, e) == [k \in (DOMAIN m) \cup {h} |-> IF k = h THEN e ELSE m[k]]

\* delete(m, h)
MapDelete(m, h) == [k \in (DOMAIN m) \ {h} |-> m[k]]

\* e, ok := m[h]
MapGet(m, h) == IF h \in DOMAIN m THEN m[h] ELSE ZeroEntry

\* fmt.Sprintf("magnet:?xt=urn:btih:%s", hash)
MagnetURI(h) == <<"magnet:?xt=urn:btih:", h>>

\* the orders in which a range loop may visit the keys S of a map
Orders(S) ==
    {o \in [1..Cardinality(S) -> S] : \A i, j \in 1..Cardinality(S) : i # j => o[i] # o[j]}

(***************************************************************************)
(* JSON encoding of the current schema (the struct tags of MagnetEntry):   *)
(* a field tagged omitempty is left out of the object when it holds its    *)
(* zero value, and a key missing from the object decodes to the zero value.*)
(***************************************************************************)
AlwaysKeys == {"uuid", "title", "hash", "uri"}
OmitEmptyKeys == {"id", "retry_count"}

\* (mutant) an encoding of MagnetEntry that leaves the title out
MarshalEntryNoTitle(e) ==
    [k \in (AlwaysKeys \ {"title"}) \cup {f \in OmitEmptyKeys : e[f] # ZeroEntry[f]} |-> e[k]]

\* json.Marshal of one MagnetEntry: the object's keys and values
MarshalEntry(e) ==
    [k \in AlwaysKeys \cup {f \in OmitEmptyKeys : e[f] # ZeroEntry[f]} |-> e[k]]

\* json.Unmarshal of one object into a MagnetEntry
UnmarshalEntry(j) ==
    [k \in DOMAIN ZeroEntry |-> IF k \in DOMAIN j THEN j[k] ELSE ZeroEntry[k]]

MarshalMap(m) == [h \in DOMAIN m |-> MarshalEntry(m[h])]
UnmarshalMap(j) == [h \in DOMAIN j |-> UnmarshalEntry(j[h])]

\* json.Marshal of a MagnetDatabase: metadata, added and retry are always written
MarshalDatabase(db) ==
    [fmt |-> "current", metadata |-> db.metadata,
     added |-> MarshalMap(db.added), retry |-> MarshalMap(db.retry)]

\* sha1 of a byte string, as an injective digest: the digested bytes in a tuple
Sha1(bytes) == <<bytes>>

\* ComputeChecksum digests json.Marshal(db), the whole struct
ComputeChecksum(db) == Sha1(MarshalDatabase(db))

(***************************************************************************)
(* Merge engine: MergeDatabases.                                           *)
(***************************************************************************)
\* (mutant) the loop over remote.Retry is missing
AllHashesNoRemoteRetry(local, remote) ==
    (DOMAIN local.added) \cup (DOMAIN local.retry) \cup (DOMAIN remote.added)

\* allHashes: the keys of the four maps
AllHashes(local, remote) ==
    (DOMAIN local.added) \cup (DOMAIN local.retry)
        \cup (DOMAIN remote.added) \cup (DOMAIN remote.retry)

\* the candidates slice, in its fixed order
Candidates(local, remote, hash) ==
    << [entry |-> MapGet(local.added, hash), isAdded |-> TRUE,
        exists |-> hash \in DOMAIN local.added],
       [entry |-> MapGet(local.retry, hash), isAdded |-> FALSE,
        exists |-> hash \in DOMAIN local.retry],
       [entry |-> MapGet(remote.added, hash), isAdded |-> TRUE,
        exists |-> hash \in DOMAIN remote.added],
       [entry |-> MapGet(remote.retry, hash), isAdded |-> FALSE,
        exists |-> hash \in DOMAIN remote.retry] >>

NoWinner == [winner |-> ZeroEntry, inAdded |-> FALSE, winnerFound |-> FALSE]

\* the condition under which candidate c replaces the current winner w:
\* !winnerFound || c.isAdded && !inAdded || c.entry.ID > winner.ID
Replaces(c, w) ==
    \/ ~w.winnerFound
    \/ (c.isAdded /\ ~w.inAdded)
    \/ c.entry.id > w.winner.id

RECURSIVE PickWinner(_, _, _)
\* the loop over the candidates, from index i on
PickWinner(cands, i, w) ==
    IF i > Len(cands) THEN w
    ELSE PickWinner(cands, i + 1,
             IF cands[i].exists /\ Replaces(cands[i], w)
             THEN [winner |-> cands[i].entry, inAdded |-> cands[i].isAdded,
                   winnerFound |-> TRUE]
             ELSE w)

\* (mutant) every winner is renumbered, whether it carries an id or not
AssignIDAlways(winner, nextID) ==
    [entry |-> [winner EXCEPT !.id = nextID], nextID |-> nextID + 1]

\* "Assign new sequential ID if needed": the winner's entry and the next id
AssignID(winner, nextID) ==
    IF winner.id = 0
    THEN [entry |-> [winner EXCEPT !.id = nextID], nextID |-> nextID + 1]
    ELSE [entry |-> winner,
          nextID |-> IF winner.id >= nextID THEN winner.id + 1 ELSE nextID]

\* one iteration of the loop over allHashes
MergeHash(local, remote, hash, acc) ==
    LET w == PickWinner(Candidates(local, remote, hash), 1, NoWinner)
        a == AssignID(w.winner, acc.nextID)
    IN  IF ~w.winnerFound THEN acc
        ELSE IF w.inAdded
        THEN [acc EXCEPT !.added = MapPut(acc.added, hash, a.entry),
                         !.nextID = a.nextID]
        ELSE [acc EXCEPT !.retry = MapPut(acc.retry, hash, a.entry),
                         !.nextID = a.nextID]

RECURSIVE MergeLoop(_, _, _, _, _)
\* the loop over allHashes, visited in the order the map iteration yields
MergeLoop(local, remote, order, i, acc) ==
    IF i > Len(order) THEN acc
    ELSE MergeLoop(local, remote, order, i + 1,
                   MergeHash(local, remote, order[i], acc))

\* the metadata MergeDatabases sets after the loop, at time t
MergeMetadata(acc, t) ==
    LET m == [metadata |-> [last_sequence |-> acc.nextID - 1, last_modified |-> t,
                            checksum |-> <<>>],
              added |-> acc.added, retry |-> acc.retry]
    IN  [m EXCEPT !.metadata.checksum = ComputeChecksum(m)]

\* MergeDatabases(local, remote), the map iteration visiting allHashes in
\* `order`, at time t
MergeDatabases(local, remote, order, t) ==
    MergeMetadata(MergeLoop(local, remote, order, 1,
                            [added |-> EmptyMap, retry |-> EmptyMap, nextID |-> 1]), t)

\* every result MergeDatabases can return for the two databases
MergeResults(local, remote, t) ==
    {MergeDatabases(local, remote, o, t) : o \in Orders(AllHashes(local, remote))}

(***************************************************************************)
(* Files.  The bytes of a file are told apart by what json.Unmarshal makes *)
(* of them: fmt "current" is what MarshalDatabase writes, "garbage" is no  *)
(* JSON document at all, "empty" a file of zero bytes (no JSON document    *)
(* either), and "none" stands for a path that does not exist.              *)
(***************************************************************************)
NoFile == [fmt |-> "none"]
Garbage == [fmt |-> "garbage"]
EmptyBytes == [fmt |-> "empty"]

\* len(data) > 1024: whether the bytes are longer than the size threshold
Large(bytes) == "large" \in DOMAIN bytes /\ bytes.large

\* a file longer than 1024 bytes that is no JSON document
LargeGarbage == [fmt |-> "garbage", large |-> TRUE]

\* the JSON document {} (padded with white space when large): an object without keys
EmptyObject(large) == [fmt |-> "object", large |-> large]

\* an entry object of the legacy flat map (MagnetEntryV0), with or without "uri"
FlatObject(h, withUri) ==
    [k \in {"hash", "title"} \cup (IF withUri THEN {"uri"} ELSE {}) |->
        CASE k = "hash" -> h
          [] k = "title" -> "py"
          [] OTHER -> <<"magnet:?xt=urn:btih:", h, "&dn=py">>]

\* a legacy flat-map document: the hashes S, those of withUri carrying a uri
FlatDocument(S, withUri, large) ==
    [fmt |-> "flat", entries |-> [h \in S |-> FlatObject(h, h \in withUri)],
     large |-> large]

\* json.Marshal of one MagnetEntryV1: the struct has no uuid and no id field
MarshalEntryV1(e) == [k \in (DOMAIN MarshalEntry(e)) \ {"uuid", "id"} |-> e[k]]

\* a legacy added/retry document (MagnetDatabaseV1): no metadata key
V1Document(db, large) ==
    [fmt |-> "v1", added |-> [h \in DOMAIN db.added |-> MarshalEntryV1(db.added[h])],
     retry |-> [h \in DOMAIN db.retry |-> MarshalEntryV1(db.retry[h])], large |-> large]

\* the temp path of SaveDatabaseLocal: path + ".tmp"
TmpOf(path) == IF path = "local" THEN "local.tmp" ELSE "remote.tmp"

\* "local" is magnet-list-local.json in the home directory, the json_path of the
\* default configuration; "custom" is a json_path a configuration file names
Paths == {"local", "remote", "local.tmp", "remote.tmp", "custom"}

\* a disk on which no path exists
NoFiles == [p \in Paths |-> NoFile]

\* os.ReadFile on a path holding `bytes`: fails on a missing path and under a
\* read fault
ReadFile(bytes, readFault) ==
    IF bytes.fmt = "none" \/ readFault
    THEN [ok |-> FALSE, bytes |-> NoFile]
    ELSE [ok |-> TRUE, bytes |-> bytes]

\* ComputeFileChecksum(path): the digest of the raw bytes, or an error
ComputeFileChecksum(bytes, readFault) ==
    LET r == ReadFile(bytes, readFault)
    IN  [ok |-> r.ok, sum |-> IF r.ok THEN Sha1(r.bytes) ELSE <<>>]

(***************************************************************************)
(* LoadJSONDatabase: the three parsers it tries on the same bytes.         *)
(***************************************************************************)
\* the uuids GenerateUUID may return (random: any of them, each time)
GeneratedUuids == {"g1", "g2"}

\* number of os.ReadFile attempts of LoadJSONDatabase
MaxReadAttempts == 5

\* the top-level keys of a document of the current schema
CurrentKeys == {"metadata", "added", "retry"}

\* the top-level keys of a legacy added/retry document
V1Keys == {"added", "retry"}

\* json.Unmarshal(data, db) into the pre-built empty MagnetDatabase: keys of the
\* document that name no field are skipped, fields without a key are left alone
ParseCurrent(bytes) ==
    CASE bytes.fmt = "current" ->
           [ok |-> TRUE,
            db |-> [metadata |-> bytes.metadata, added |-> UnmarshalMap(bytes.added),
                    retry |-> UnmarshalMap(bytes.retry)]]
      [] bytes.fmt = "v1" ->
           [ok |-> TRUE,
            db |-> [metadata |-> ZeroMetadata, added |-> UnmarshalMap(bytes.added),
                    retry |-> UnmarshalMap(bytes.retry)]]
      [] bytes.fmt \in {"flat", "object"} -> [ok |-> TRUE, db |-> EmptyDatabase]
      [] OTHER -> [ok |-> FALSE, db |-> EmptyDatabase]

\* the zero value of MagnetEntryV0 (the fields the entry model carries)
ZeroEntryV0 == [hash |-> "", title |-> "", uri |-> <<>>]

\* json.Unmarshal of one object into a MagnetEntryV0
UnmarshalV0(j) ==
    [k \in DOMAIN ZeroEntryV0 |-> IF k \in DOMAIN j THEN j[k] ELSE ZeroEntryV0[k]]

\* json.Unmarshal(data, &dbV0) into map[string]MagnetEntryV0: every top-level key
\* of the document becomes an entry; the objects of a current-schema document
\* share no field with MagnetEntryV0, so each decodes to the zero entry
ParseV0(bytes) ==
    CASE bytes.fmt = "current" -> [ok |-> TRUE, map |-> [k \in CurrentKeys |-> ZeroEntryV0]]
      [] bytes.fmt = "v1" -> [ok |-> TRUE, map |-> [k \in V1Keys |-> ZeroEntryV0]]
      [] bytes.fmt = "flat" ->
           [ok |-> TRUE, map |-> [h \in DOMAIN bytes.entries |-> UnmarshalV0(bytes.entries[h])]]
      [] bytes.fmt = "object" -> [ok |-> TRUE, map |-> [k \in {} |-> ZeroEntryV0]]
      [] OTHER -> [ok |-> FALSE, map |-> [k \in {} |-> ZeroEntryV0]]

\* what MagnetEntryV1 keeps of an entry object: it has no uuid and no id field
EntryV1(j) == [UnmarshalEntry(j) EXCEPT !.uuid = "", !.id = 0]

\* json.Unmarshal(data, dbV1) into MagnetDatabaseV1
ParseV1(bytes) ==
    CASE bytes.fmt \in {"current", "v1"} ->
           [ok |-> TRUE, added |-> [h \in DOMAIN bytes.added |-> EntryV1(bytes.added[h])],
            retry |-> [h \in DOMAIN bytes.retry |-> EntryV1(bytes.retry[h])]]
      [] bytes.fmt \in {"flat", "object"} ->
           [ok |-> TRUE, added |-> EmptyMap, retry |-> EmptyMap]
      [] OTHER -> [ok |-> FALSE, added |-> EmptyMap, retry |-> EmptyMap]

\* (mutant) a V0 branch that gives every entry the id 1
FromV0SameId(v0, uuid, id) ==
    [uuid |-> uuid, id |-> 1, title |-> v0.title, hash |-> v0.hash,
     uri |-> IF v0.uri = <<>> THEN MagnetURI(v0.hash) ELSE v0.uri,
     retry_count |-> 0]

\* the MagnetEntry the V0 branch builds for the i-th key it visits
FromV0(v0, uuid, id) ==
    [uuid |-> uuid, id |-> id, title |-> v0.title, hash |-> v0.hash,
     uri |-> IF v0.uri = <<>> THEN MagnetURI(v0.hash) ELSE v0.uri,
     retry_count |-> 0]

\* the V0 branch: db after the loop over dbV0 visited in `order`, with uuids[h]
\* the uuid generated for key h
LoadV0(db, map, order, uuids) ==
    LET added == [h \in (DOMAIN db.added) \cup (DOMAIN map) |->
                    IF h \in DOMAIN map
                    THEN FromV0(map[h], uuids[h],
                                CHOOSE i \in 1..Len(order) : order[i] = h)
                    ELSE db.added[h]]
        d == [db EXCEPT !.added = added, !.metadata.last_sequence = Len(order)]
    IN  [d EXCEPT !.metadata.checksum = ComputeChecksum(d)]

\* the V1 branch: the entries of dbV1.Added, then those of dbV1.Retry, numbered
\* in the order visited
LoadV1(db, v1, orderA, orderR, uuids) ==
    LET added == [h \in (DOMAIN db.added) \cup (DOMAIN v1.added) |->
                    IF h \in DOMAIN v1.added
                    THEN [v1.added[h] EXCEPT !.uuid = uuids[<<"a", h>>],
                            !.id = CHOOSE i \in 1..Len(orderA) : orderA[i] = h]
                    ELSE db.added[h]]
        retry == [h \in (DOMAIN db.retry) \cup (DOMAIN v1.retry) |->
                    IF h \in DOMAIN v1.retry
                    THEN [v1.retry[h] EXCEPT !.uuid = uuids[<<"r", h>>],
                            !.id = Len(orderA)
                                     + CHOOSE i \in 1..Len(orderR) : orderR[i] = h]
                    ELSE db.retry[h]]
        d == [db EXCEPT !.added = added, !.retry = retry,
                        !.metadata.last_sequence = Len(orderA) + Len(orderR)]
    IN  [d EXCEPT !.metadata.checksum = ComputeChecksum(d)]

\* (mutant) bytes that no parser accepts are taken for an empty database
UnrecognizedIsEmpty == [db |-> EmptyDatabase, err |-> "none"]

\* "ERROR: All parsers failed": return nil, fmt.Errorf("unrecognized format")
Unrecognized == [db |-> EmptyDatabase, err |-> "format"]

\* the end of the V1 branch: an error if a large file gave no entry
CheckV1(bytes, d) ==
    IF Large(bytes) /\ DOMAIN d.added = {} /\ DOMAIN d.retry = {}
    THEN [db |-> EmptyDatabase, err |-> "format"]
    ELSE [db |-> d, err |-> "none"]

\* (mutant) format detection that returns whatever parses under the current
\* schema, entries or not
ParseResultsAcceptsEmpty(bytes) ==
    LET cur == ParseCurrent(bytes)
    IN  IF cur.ok THEN {[db |-> cur.db, err |-> "none"]} ELSE {Unrecognized}

\* the results of format detection on bytes that were read: [db, err]
ParseResults(bytes) ==
    LET cur == ParseCurrent(bytes)
        v0 == ParseV0(bytes)
        v1 == ParseV1(bytes)
    IN  IF cur.ok /\ (DOMAIN cur.db.added # {} \/ DOMAIN cur.db.retry # {})
        THEN {[db |-> cur.db, err |-> "none"]}
        ELSE IF v0.ok /\ DOMAIN v0.map # {}
        THEN {[db |-> LoadV0(cur.db, v0.map, o, u), err |-> "none"] :
                 o \in Orders(DOMAIN v0.map), u \in [DOMAIN v0.map -> GeneratedUuids]}
        ELSE IF v1.ok /\ (DOMAIN v1.added # {} \/ DOMAIN v1.retry # {})
        THEN LET keys == ({"a"} \X DOMAIN v1.added) \cup ({"r"} \X DOMAIN v1.retry)
             IN  {CheckV1(bytes, LoadV1(cur.db, v1, oa, or, u)) :
                     oa \in Orders(DOMAIN v1.added), or \in Orders(DOMAIN v1.retry),
                     u \in [keys -> GeneratedUuids]}
        ELSE {Unrecognized}

\* (mutant) a loader for which a path that does not exist is a read error
LoadJSONDatabaseMissingFails(bytes, fails) ==
    IF bytes.fmt = "none" \/ fails >= MaxReadAttempts
    THEN {[db |-> EmptyDatabase, err |-> "read"]}
    ELSE ParseResults(bytes)

\* LoadJSONDatabase on a path holding `bytes`, when the first `fails` reads
\* fail: the results [db, err] it can return
LoadJSONDatabase(bytes, fails) ==
    IF bytes.fmt = "none" THEN {[db |-> EmptyDatabase, err |-> "none"]}
    ELSE IF fails >= MaxReadAttempts THEN {[db |-> EmptyDatabase, err |-> "read"]}
    ELSE ParseResults(bytes)

\* the reads that fail under a read fault that outlasts the retries, or none
FailsOf(readFault) == IF readFault THEN MaxReadAttempts ELSE 0

\* `if attempt < 4`: a failed read is tried again while attempt is below this
RetryBelow == 4

\* (mutant) a pass of the read loop that tries again after a parse failure
LoadIterationRetriesParse(bytes, attempt, readOk) ==
    IF ~readOk
    THEN IF attempt < RetryBelow
         THEN {[done |-> FALSE, out |-> <<>>]}
         ELSE {[done |-> TRUE, out |-> <<[db |-> EmptyDatabase, err |-> "read"]>>]}
    ELSE {IF p.err = "format" THEN [done |-> FALSE, out |-> <<>>]
          ELSE [done |-> TRUE, out |-> <<p>>] : p \in ParseResults(bytes)}

\* one pass of the read loop of LoadJSONDatabase, os.ReadFile succeeding or not:
\* the loop goes on (continue) or the call returns out[1]
LoadIteration(bytes, attempt, readOk) ==
    IF ~readOk
    THEN IF attempt < RetryBelow
         THEN {[done |-> FALSE, out |-> <<>>]}
         ELSE {[done |-> TRUE, out |-> <<[db |-> EmptyDatabase, err |-> "read"]>>]}
    ELSE {[done |-> TRUE, out |-> <<p>>] : p \in ParseResults(bytes)}

\* the return after the loop: fmt.Errorf("failed to load JSON after retries")
AfterRetries == [db |-> EmptyDatabase, err |-> "retries"]

(***************************************************************************)
(* SaveDatabaseLocal.                                                      *)
(***************************************************************************)
Truncated == [fmt |-> "truncated"]

\* the database as SaveDatabaseLocal leaves it (it writes through the pointer):
\* LastModified is set first, then Checksum from the whole struct
Stamp(db, t) ==
    LET d == [db EXCEPT !.metadata.last_modified = t]
    IN  [d EXCEPT !.metadata.checksum = ComputeChecksum(d)]

\* SaveDatabaseLocal(path, db) at time t, as one step.  fault "write": os.WriteFile
\* fails after creating the temp file; "rename": os.Rename fails and the temp file
\* is removed.  Returns the disk, the database as left in memory, and the error.
SaveDatabaseLocal(fsys, path, db, t, fault) ==
    LET d == Stamp(db, t)
        data == MarshalDatabase(d)
    IN  CASE fault = "write" ->
               [fs |-> [fsys EXCEPT ![TmpOf(path)] = Truncated], db |-> d, err |-> "write"]
          [] fault = "rename" ->
               [fs |-> [fsys EXCEPT ![TmpOf(path)] = NoFile], db |-> d, err |-> "rename"]
          [] OTHER ->
               [fs |-> [fsys EXCEPT ![path] = data, ![TmpOf(path)] = NoFile],
                db |-> d, err |-> "none"]

(***************************************************************************)
(* MigrateFileFormat.                                                      *)
(***************************************************************************)
\* (mutant) a migration that generates no uuid
KeepUuids(m, uuids, sec) == m

\* "Generate UUIDs for entries that don't have them", over one map; uuids gives
\* the uuid GenerateUUID returns for each entry
GenerateUuids(m, uuids, sec) ==
    [h \in DOMAIN m |-> IF m[h].uuid = "" THEN [m[h] EXCEPT !.uuid = uuids[<<sec, h>>]]
                        ELSE m[h]]

\* MigrateFileFormat(path) at time t when the first `fails` reads fail, under a
\* fault of the save: the outcomes [fs, err, db] it can have, db the database
\* LoadJSONDatabase returned
MigrateFileFormat(fsys, path, fails, t, fault) ==
    UNION {
      IF l.err # "none" THEN {[fs |-> fsys, err |-> "load", db |-> l.db]}
      ELSE {LET c == [l.db EXCEPT !.metadata.checksum = ComputeChecksum(l.db)]
                g == [c EXCEPT !.added = GenerateUuids(c.added, u, "a"),
                               !.retry = GenerateUuids(c.retry, u, "r")]
                r == SaveDatabaseLocal(fsys, path, g, t, fault)
            IN  [fs |-> r.fs, err |-> IF r.err = "none" THEN "none" ELSE "save",
                 db |-> l.db]
            : u \in [({"a"} \X DOMAIN l.db.added) \cup ({"r"} \X DOMAIN l.db.retry)
                        -> GeneratedUuids]}
      : l \in LoadJSONDatabase(fsys[path], fails)}

(***************************************************************************)
(* Sync orchestrator: SyncWithRemote and SaveJSONDatabase.                 *)
(***************************************************************************)
IsEmptyDatabase(db) == DOMAIN db.added = {} /\ DOMAIN db.retry = {}

\* SyncWithRemote(localPath, remotePath) over the bytes of the two paths (a
\* remote path "" holds no file): the results [db, err] it can return
SyncWithRemote(localBytes, remoteBytes, localFault, remoteFault, t) ==
    LET lsum == ComputeFileChecksum(localBytes, localFault)
        rsum == ComputeFileChecksum(remoteBytes, remoteFault)
        locals == LoadJSONDatabase(localBytes, FailsOf(localFault))
        remotes == LoadJSONDatabase(remoteBytes, FailsOf(remoteFault))
    IN  IF lsum.ok /\ rsum.ok /\ lsum.sum = rsum.sum
        THEN {IF l.err # "none" THEN [db |-> EmptyDatabase, err |-> "sync"] ELSE l :
                 l \in locals}
        ELSE UNION {
               LET local == IF l.err # "none" THEN EmptyDatabase ELSE l.db
               IN  IF r.err # "none"
                   THEN {[db |-> local, err |-> "none"]}
                   ELSE {[db |-> m, err |-> "none"] : m \in MergeResults(local, r.db, t)}
               : l \in locals, r \in remotes}

\* (mutant) a sync step that loads the local file and leaves the remote out
SyncLocalOnly(localBytes, remoteBytes, localFault, remoteFault, t) ==
    {IF l.err # "none" THEN EmptyDatabase ELSE l.db :
        l \in LoadJSONDatabase(localBytes, FailsOf(localFault))}

\* "Load and sync with remote first", with the fallback to the local file
SyncOrLocal(localBytes, remoteBytes, localFault, remoteFault, t) ==
    UNION {
      IF s.err = "none" THEN {s.db}
      ELSE {IF l.err # "none" THEN EmptyDatabase ELSE l.db :
               l \in LoadJSONDatabase(localBytes, FailsOf(localFault))}
      : s \in SyncWithRemote(localBytes, remoteBytes, localFault, remoteFault, t)}

\* "Safety check: if merged database is empty but remote has data, use remote"
PreferRemote(merged, remoteBytes, remoteFault, cfgRemote) ==
    IF IsEmptyDatabase(merged) /\ cfgRemote
    THEN {IF r.err = "none" /\ ~IsEmptyDatabase(r.db) THEN r.db ELSE merged :
             r \in LoadJSONDatabase(remoteBytes, FailsOf(remoteFault))}
    ELSE {merged}

\* one iteration of either update loop: the entry gets the next id if it has none
UpdateID(entry, nextID) ==
    IF entry.id = 0
    THEN [entry |-> [entry EXCEPT !.id = nextID], nextID |-> nextID + 1]
    ELSE [entry |-> entry, nextID |-> nextID]

RECURSIVE AddedLoopKeepsRetry(_, _, _, _)
\* (mutant) the loop over updates.Added without the delete from retry
AddedLoopKeepsRetry(acc, updates, order, i) ==
    IF i > Len(order) THEN acc
    ELSE LET u == UpdateID(updates.added[order[i]], acc.nextID)
         IN  AddedLoopKeepsRetry([added |-> MapPut(acc.added, order[i], u.entry),
                                  retry |-> acc.retry,
                                  nextID |-> u.nextID], updates, order, i + 1)

RECURSIVE AddedLoop(_, _, _, _)
\* for hash, entry := range updates.Added, visited in `order`
AddedLoop(acc, updates, order, i) ==
    IF i > Len(order) THEN acc
    ELSE LET u == UpdateID(updates.added[order[i]], acc.nextID)
         IN  AddedLoop([added |-> MapPut(acc.added, order[i], u.entry),
                        retry |-> MapDelete(acc.retry, order[i]),
                        nextID |-> u.nextID], updates, order, i + 1)

RECURSIVE RetryLoop(_, _, _, _)
\* for hash, entry := range updates.Retry, visited in `order`
RetryLoop(acc, updates, order, i) ==
    IF i > Len(order) THEN acc
    ELSE LET u == UpdateID(updates.retry[order[i]], acc.nextID)
         IN  RetryLoop([added |-> acc.added,
                        retry |-> MapPut(acc.retry, order[i], u.entry),
                        nextID |-> u.nextID], updates, order, i + 1)

\* "Apply updates to merged database"
ApplyUpdates(merged, updates, orderA, orderR) ==
    LET acc == RetryLoop(AddedLoop([added |-> merged.added, retry |-> merged.retry,
                                    nextID |-> merged.metadata.last_sequence + 1],
                                   updates, orderA, 1),
                         updates, orderR, 1)
    IN  [metadata |-> [merged.metadata EXCEPT !.last_sequence = acc.nextID - 1],
         added |-> acc.added, retry |-> acc.retry]

\* every database the update loops can leave
UpdateResults(merged, updates) ==
    {ApplyUpdates(merged, updates, oa, or) :
        oa \in Orders(DOMAIN updates.added), or \in Orders(DOMAIN updates.retry)}

\* the fault of a SaveDatabaseLocal call on `path`, out of the fault of the run
SaveFault(fault, path) ==
    CASE fault = <<path, "write">> -> "write"
      [] fault = <<path, "rename">> -> "rename"
      [] OTHER -> "none"

\* (mutant) the two saves without the copy to the remote path
SaveLocalOnly(fsys, db, cfgRemote, fault, t, d) ==
    LET l == SaveDatabaseLocal(fsys, "local", db, t, SaveFault(fault, "local"))
    IN  IF l.err # "none" THEN [fs |-> l.fs, err |-> "save"]
        ELSE [fs |-> l.fs, err |-> "none"]

\* (mutant) the two saves with a failed remote save returned as the error
SaveBothRemoteFatal(fsys, db, cfgRemote, fault, t, d) ==
    LET l == SaveDatabaseLocal(fsys, "local", db, t, SaveFault(fault, "local"))
        r == SaveDatabaseLocal(l.fs, "remote", l.db, t + d, SaveFault(fault, "remote"))
    IN  IF l.err # "none" THEN [fs |-> l.fs, err |-> "save"]
        ELSE IF cfgRemote THEN [fs |-> r.fs, err |-> IF r.err # "none" THEN "save" ELSE "none"]
        ELSE [fs |-> l.fs, err |-> "none"]

\* the two saves of SaveJSONDatabase: local at time t, then (best effort) remote
\* at time t + d
SaveBoth(fsys, db, cfgRemote, fault, t, d) ==
    LET l == SaveDatabaseLocal(fsys, "local", db, t, SaveFault(fault, "local"))
        r == SaveDatabaseLocal(l.fs, "remote", l.db, t + d, SaveFault(fault, "remote"))
    IN  IF l.err # "none" THEN [fs |-> l.fs, err |-> "save"]
        ELSE IF cfgRemote THEN [fs |-> r.fs, err |-> "none"]
        ELSE [fs |-> l.fs, err |-> "none"]

\* the hashes of a file: the keys of both sections of a document, else none
HashesOfBytes(bytes) ==
    IF bytes.fmt = "current" THEN (DOMAIN bytes.added) \cup (DOMAIN bytes.retry) ELSE {}

\* the bytes at the remote path of the configuration ("" names no file)
RemoteBytes(fsys, cfgRemote) == IF cfgRemote THEN fsys["remote"] ELSE NoFile

\* SaveJSONDatabase(localPath, updates, config) under one fault: the outcomes
\* [fs, err] it can have, with `merged` as it was before the update loops
SaveJSONDatabase(fsys, cfgRemote, updates, fault, t, d) ==
    LET lb == fsys["local"]
        rb == RemoteBytes(fsys, cfgRemote)
        lf == fault = <<"local", "read">>
        rf == fault = <<"remote", "read">>
    IN  UNION { UNION { {LET b == SaveBoth(fsys, u, cfgRemote, fault, t, d)
                             IN  [fs |-> b.fs, err |-> b.err, merged |-> m] :
                            u \in UpdateResults(m, updates)}
                        : m \in PreferRemote(s, rb, rf, cfgRemote)}
                : s \in SyncOrLocal(lb, rb, lf, rf, t)}

(***************************************************************************)
(* The Deluge operations that write the database themselves:               *)
(* BackfillFromDeluge and SyncWithDeluge (orphan cleanup).  `torrents` is   *)
(* the set of hashes GetTorrentsByLabel returned.                          *)
(***************************************************************************)
\* "Create new entry" of BackfillFromDeluge
BackfillEntry(hash, uuid, id) ==
    [uuid |-> uuid, id |-> id, title |-> "bf", hash |-> hash, uri |-> MagnetURI(hash),
     retry_count |-> 0]

RECURSIVE BackfillLoop(_, _, _, _)
\* for hash, torrentData := range torrents, visited in `order`
BackfillLoop(acc, order, uuids, i) ==
    IF i > Len(order) THEN acc
    ELSE LET hash == order[i]
         IN  BackfillLoop(
                 IF hash \in DOMAIN acc.added THEN acc
                 ELSE IF hash \in DOMAIN acc.retry
                 THEN [acc EXCEPT !.added = MapPut(acc.added, hash, acc.retry[hash]),
                                  !.retry = MapDelete(acc.retry, hash)]
                 ELSE [acc EXCEPT !.added = MapPut(acc.added, hash,
                                     BackfillEntry(hash, uuids[hash], acc.nextID)),
                                  !.nextID = acc.nextID + 1],
                 order, uuids, i + 1)

\* BackfillFromDeluge(config) after the torrents were fetched, with
\* config.JSONPath = jsonPath: the outcomes [fs, err] it can have.  The database
\* is loaded from jsonPath and saved to the file in the home directory.
BackfillFromDeluge(fsys, jsonPath, cfgRemote, torrents, fault, t, d) ==
    UNION {
      LET db == IF l.err # "none" THEN EmptyDatabase ELSE l.db
      IN  {LET acc == BackfillLoop([added |-> db.added, retry |-> db.retry,
                                    nextID |-> db.metadata.last_sequence + 1],
                                   o, u, 1)
           IN  SaveBoth(fsys,
                        [metadata |-> [db.metadata EXCEPT !.last_sequence = acc.nextID - 1],
                         added |-> acc.added, retry |-> acc.retry],
                        cfgRemote, fault, t, d)
           : o \in Orders(torrents), u \in [torrents -> GeneratedUuids]}
      : l \in LoadJSONDatabase(fsys[jsonPath], FailsOf(fault = <<"local", "read">>))}

\* SyncWithDeluge(config, false) after the torrents were fetched, with
\* config.JSONPath = jsonPath: the entries of added that Deluge does not hold are
\* removed and the database is saved to the file in the home directory
SyncWithDeluge(fsys, jsonPath, cfgRemote, torrents, fault, t, d) ==
    {IF l.err # "none" THEN [fs |-> fsys, err |-> "load"]
     ELSE LET orphaned == (DOMAIN l.db.added) \ torrents
          IN  IF orphaned = {} THEN [fs |-> fsys, err |-> "none"]
              ELSE SaveBoth(fsys,
                            [l.db EXCEPT !.added =
                               [h \in (DOMAIN l.db.added) \ orphaned |-> l.db.added[h]]],
                            cfgRemote, fault, t, d)
     : l \in LoadJSONDatabase(fsys[jsonPath], FailsOf(fault = <<"local", "read">>))}

(***************************************************************************)
(* AddMagnetToDeluge.  A magnet URI is <<what precedes the info hash, the  *)
(* text at the place of the info hash>>; the URIs of the model carry no    *)
(* dn= parameter.                                                          *)
(***************************************************************************)
UpperNames == <<"H1", "H2", "H3", "H4">>

\* strings.ToLower on the texts of the model
ToLower(x) ==
    IF \E i \in 1..Len(UpperNames) : UpperNames[i] = x
    THEN HashNames[CHOOSE i \in 1..Len(UpperNames) : UpperNames[i] = x]
    ELSE x

\* the texts the whitelist pattern of ValidateMagnetURI accepts
Whitelisted == Hashes \cup {UpperNames[i] : i \in 1..NumHashes} \cup {"abc"}

\* ValidateMagnetURI(uri)
ValidateMagnetURI(uri) == uri[1] = "magnet:?xt=urn:btih:" /\ uri[2] \in Whitelisted

\* ExtractMagnetHash(uri): the lower-case info hash, "" when the text is not one
ExtractMagnetHash(uri) == IF ToLower(uri[2]) \in Hashes THEN ToLower(uri[2]) ELSE ""

\* ExtractMagnetName(uri) of a URI without dn= parameter
ExtractMagnetName(uri) == "Unknown"

\* the URIs handed to AddMagnetToDeluge: an info hash in lower or upper case, a
\* text too short for an info hash, a text outside the whitelist, another scheme
MagnetUris ==
    {<<"magnet:?xt=urn:btih:", x>> : x \in Whitelisted \cup {"h1;rm"}}
      \cup {<<"http://x/?xt=urn:btih:", "h1">>}

\* what Deluge does with the request of one call
DelugeOutcomes == {"authFail", "connectFail", "accepted", "inSession", "addFail"}

\* the MagnetEntry AddMagnetToDeluge builds
NewEntry(uri, uuid) ==
    [uuid |-> uuid, id |-> 0, title |-> ExtractMagnetName(uri),
     hash |-> ExtractMagnetHash(uri), uri |-> uri, retry_count |-> 1]

\* dbUpdate with `entry` under the key `hash` of section sec
UpdateWith(hash, entry, sec) ==
    [metadata |-> ZeroMetadata,
     added |-> [x \in (IF sec = "added" THEN {hash} ELSE {}) |-> entry],
     retry |-> [x \in (IF sec = "retry" THEN {hash} ELSE {}) |-> entry]]

\* the section AddMagnetToDeluge and ProcessRetryQueue record an outcome in
SectionFor(deluge) == IF deluge \in {"accepted", "inSession"} THEN "added" ELSE "retry"

\* (mutant) a known hash is submitted again
KnownNever(db, hash) == FALSE

\* "Check if already successfully added", "Check if already in retry queue"
Known(db, hash) == hash \in DOMAIN db.added \/ hash \in DOMAIN db.retry

\* AddMagnetToDeluge(magnetURI, config) with the default json_path: the outcomes
\* [fs, err, contacted, updates] it can have; contacted tells whether a request
\* went to Deluge
AddMagnetToDeluge(fsys, cfgRemote, uri, deluge, uuid, fault, t) ==
    IF ~ValidateMagnetURI(uri)
    THEN {[fs |-> fsys, err |-> "invalid", contacted |-> FALSE, updates |-> EmptyDatabase]}
    ELSE IF ExtractMagnetHash(uri) = ""
    THEN {[fs |-> fsys, err |-> "nohash", contacted |-> FALSE, updates |-> EmptyDatabase]}
    ELSE UNION {
      LET db == IF l.err # "none" THEN EmptyDatabase ELSE l.db
          dbUpdate == UpdateWith(ExtractMagnetHash(uri), NewEntry(uri, uuid),
                                 SectionFor(deluge))
      IN  IF Known(db, ExtractMagnetHash(uri))
          THEN {[fs |-> fsys, err |-> "none", contacted |-> FALSE,
                 updates |-> EmptyDatabase]}
          ELSE {[fs |-> r.fs,
                 err |-> CASE deluge = "authFail" -> "auth"
                           [] deluge = "connectFail" -> "connect"
                           [] OTHER -> "none",
                 contacted |-> TRUE, updates |-> dbUpdate]
                : r \in SaveJSONDatabase(fsys, cfgRemote, dbUpdate, fault, t, 0)}
      : l \in LoadJSONDatabase(fsys["local"], FailsOf(fault = <<"local", "read">>))}


(***************************************************************************)
(* State.                                                                  *)
(***************************************************************************)
VARIABLES
    mLocal,     \* MergeDatabases: the local argument
    mRemote,    \* MergeDatabases: the remote argument
    mMerged,    \* <<the database MergeDatabases(local, remote) returned>>, or <<>>
    mAgain,     \* <<the database the second MergeDatabases call returned>>, or <<>>
    mPhase,     \* "input", "merged", then "again", "againLocal" or "swapped"
    fs,         \* the disk: the bytes at each path
    cfgRemote,  \* whether the configuration names a remote path
    now,        \* the clock, in seconds
    sPhase,     \* "idle" before the operation on the store, "done" after it
    last,       \* the operation that ran: its name, updates, fault, error and result
    rDb,        \* round trip: the database handed to SaveDatabaseLocal
    rOut,       \* round trip: <<the result [db, err] of LoadJSONDatabase>>, or <<>>
    rPhase,     \* round trip: "input", "saved" or "loaded"
    rAttempt,   \* LoadJSONDatabase in steps: the loop variable `attempt`
    rReads,     \* LoadJSONDatabase in steps: the os.ReadFile calls made so far
    pc,         \* per writer process: <<step, path>> of its SaveJSONDatabase call
    mem,        \* per writer process: the database it holds in memory
    fd,         \* per writer process: where the file it has open is now, or "none"
    errs,       \* per writer process: what its SaveJSONDatabase call returned
    seen        \* <<the bytes the reader's last read of the local path returned>>

mergeVars == <<mLocal, mRemote, mMerged, mAgain, mPhase>>
storeVars == <<fs, cfgRemote, now, sPhase, last>>
roundVars == <<rDb, rOut, rPhase, rAttempt, rReads>>
concVars == <<pc, mem, fd, errs, seen>>

vars == <<mergeVars, storeVars, roundVars, concVars>>

\* the processes that call SaveJSONDatabase at the same time
Writers == {"w1", "w2"}

NoFault == <<"none", "none">>

NoOperation ==
    [op |-> "none", updates |-> EmptyDatabase, fault |-> NoFault, err |-> "none",
     out |-> <<>>]

\* the store variables of a specification that does not use the store
StoreIdle ==
    /\ fs = NoFiles
    /\ cfgRemote = FALSE
    /\ now = 0
    /\ sPhase = "idle"
    /\ last = NoOperation

\* the merge variables of a specification that runs no merge of its own
MergeIdle ==
    /\ mLocal = EmptyDatabase
    /\ mRemote = EmptyDatabase
    /\ mMerged = <<>>
    /\ mAgain = <<>>
    /\ mPhase = "idle"

\* the round-trip variables of a specification that runs no round trip
RoundIdle ==
    /\ rDb = EmptyDatabase
    /\ rOut = <<>>
    /\ rPhase = "idle"
    /\ rAttempt = 0
    /\ rReads = 0

\* the process variables of a specification with no concurrent writers
ConcIdle ==
    /\ pc = [w \in Writers |-> <<"idle", "local">>]
    /\ mem = [w \in Writers |-> EmptyDatabase]
    /\ fd = [w \in Writers |-> "none"]
    /\ errs = [w \in Writers |-> "none"]
    /\ seen = <<>>

(***************************************************************************)
(* The input databases of a merge.  A slot is one of the four maps         *)
(* (local/remote, added/retry) at one hash; an input holds an entry in at  *)
(* most MaxMergeEntries slots (MaxEntries in the files of a store), each   *)
(* with an id in 0..MaxId and a title that tells the four candidates of a  *)
(* hash apart.                                                             *)
(***************************************************************************)
MapNames == {"la", "lr", "ra", "rr"}
Slots == MapNames \X Hashes

HashIndex(h) == CHOOSE i \in 1..Len(HashNames) : HashNames[i] = h

InputEntry(map, h, id) ==
    [uuid |-> UuidNames[HashIndex(h)], id |-> id, title |-> map, hash |-> h,
     uri |-> MagnetURI(h), retry_count |-> IF map \in {"lr", "rr"} THEN 1 ELSE 0]

InputMap(S, ids, map) ==
    [h \in {x \in Hashes : <<map, x>> \in S} |-> InputEntry(map, h, ids[<<map, h>>])]

MaxOf(S) == IF S = {} THEN 0 ELSE CHOOSE x \in S : \A y \in S : y <= x

\* the ids of the entries of a database
IdsOf(db) == {db.added[h].id : h \in DOMAIN db.added} \cup {db.retry[h].id : h \in DOMAIN db.retry}

\* a database as a file holds it: last_sequence is the highest id handed out, plus
\* slack for the ids of entries that are gone since
InputDatabase(S, ids, addedMap, retryMap, slack) ==
    LET a == InputMap(S, ids, addedMap)
        r == InputMap(S, ids, retryMap)
        seq == MaxOf({a[h].id : h \in DOMAIN a} \cup {r[h].id : h \in DOMAIN r}) + slack
    IN  [metadata |-> [last_sequence |-> seq, last_modified |-> 0, checksum |-> <<>>],
         added |-> a, retry |-> r]

\* the time of the merges of SpecMerge
MergeTime == 1

MergeInit ==
    \E S \in {T \in SUBSET Slots : Cardinality(T) <= MaxMergeEntries} :
      \E ids \in [S -> 0..MaxId] :
        /\ mLocal = InputDatabase(S, ids, "la", "lr", 0)
        /\ mRemote = InputDatabase(S, ids, "ra", "rr", 0)
        /\ mMerged = <<>>
        /\ mAgain = <<>>
        /\ mPhase = "input"
        /\ StoreIdle
        /\ RoundIdle
        /\ ConcIdle

\* merged := MergeDatabases(local, remote)
Merge ==
    /\ mPhase = "input"
    /\ \E m \in MergeResults(mLocal, mRemote, MergeTime) :
         mMerged' = <<m>>
    /\ mPhase' = "merged"
    /\ UNCHANGED <<mLocal, mRemote, mAgain, storeVars, roundVars, concVars>>

\* again := MergeDatabases(merged, remote)
MergeAgain ==
    /\ mPhase = "merged"
    /\ \E m \in MergeResults(mMerged[1], mRemote, MergeTime) :
         mAgain' = <<m>>
    /\ mPhase' = "again"
    /\ UNCHANGED <<mLocal, mRemote, mMerged, storeVars, roundVars, concVars>>

\* againLocal := MergeDatabases(merged, local)
MergeAgainLocal ==
    /\ mPhase = "merged"
    /\ \E m \in MergeResults(mMerged[1], mLocal, MergeTime) :
         mAgain' = <<m>>
    /\ mPhase' = "againLocal"
    /\ UNCHANGED <<mLocal, mRemote, mMerged, storeVars, roundVars, concVars>>

\* swapped := MergeDatabases(remote, local), the arguments exchanged
MergeSwapped ==
    /\ mPhase = "merged"
    /\ \E m \in MergeResults(mRemote, mLocal, MergeTime) :
         mAgain' = <<m>>
    /\ mPhase' = "swapped"
    /\ UNCHANGED <<mLocal, mRemote, mMerged, storeVars, roundVars, concVars>>

MergeNext == Merge \/ MergeAgain \/ MergeAgainLocal \/ MergeSwapped

SpecMerge == MergeInit /\ [][MergeNext]_vars

(***************************************************************************)
(* SpecStore: one SaveJSONDatabase call on a disk whose local and remote   *)
(* files are drawn from the input databases, a file that is no JSON, a     *)
(* missing file, or a remote file that is a copy of the local one.         *)
(***************************************************************************)
\* the bytes SaveDatabaseLocal wrote for db at time 0
SavedBytes(db) == MarshalDatabase(Stamp(db, 0))

\* the entry a caller puts in its update: a fresh entry (id 0) or one it loaded
UpdateEntry(h, id) ==
    [uuid |-> "g1", id |-> id, title |-> "up", hash |-> h, uri |-> MagnetURI(h),
     retry_count |-> 1]

\* dbUpdate with one entry, in section sec
Update(h, sec, id) ==
    [metadata |-> ZeroMetadata,
     added |-> [x \in (IF sec = "added" THEN {h} ELSE {}) |-> UpdateEntry(h, id)],
     retry |-> [x \in (IF sec = "retry" THEN {h} ELSE {}) |-> UpdateEntry(h, id)]]

Updates == {Update(h, sec, id) : h \in Hashes, sec \in {"added", "retry"}, id \in 0..MaxId}

\* the faults of one run: none, a path that cannot be read, or a save that fails
Faults ==
    {NoFault, <<"local", "read">>, <<"remote", "read">>, <<"local", "write">>,
     <<"local", "rename">>, <<"remote", "write">>, <<"remote", "rename">>}

\* the bytes of an initial file of kind k holding db
InitialBytes(k, db) ==
    CASE k = "doc" -> SavedBytes(db)
      [] k = "garbage" -> Garbage
      [] OTHER -> NoFile

StoreInit ==
    \E S \in {T \in SUBSET Slots : Cardinality(T) <= MaxEntries} :
      \E ids \in [S -> 0..MaxId] :
        \E sl \in 0..1, cfg \in BOOLEAN,
           lk \in {"doc", "garbage", "none"}, rk \in {"doc", "garbage", "none", "mirror"} :
          LET ldb == InputDatabase(S, ids, "la", "lr", sl)
              rdb == InputDatabase(S, ids, "ra", "rr", 0)
              lbytes == InitialBytes(lk, ldb)
          IN  /\ ~IsEmptyDatabase(ldb) => lk = "doc"
              /\ (rk = "doc") = ~IsEmptyDatabase(rdb)
              /\ (lk = "doc" /\ IsEmptyDatabase(ldb)) => rk \in {"mirror", "none"}
              /\ lk # "doc" => sl = 0
              /\ ~cfg => rk = "none"
              /\ fs = [NoFiles EXCEPT !["local"] = lbytes,
                                      !["remote"] = IF rk = "mirror" THEN lbytes
                                                    ELSE InitialBytes(rk, rdb)]
              /\ cfgRemote = cfg
              /\ now = 1
              /\ sPhase = "idle"
              /\ last = NoOperation
              /\ MergeIdle
              /\ RoundIdle
              /\ ConcIdle

\* SaveJSONDatabase(config.JSONPath, updates, &config)
Apply ==
    /\ sPhase = "idle"
    /\ \E u \in Updates, fault \in Faults, d \in 0..1 :
         \E r \in SaveJSONDatabase(fs, cfgRemote, u, fault, now, d) :
           /\ fs' = r.fs
           /\ now' = now + d
           /\ last' = [op |-> "apply", updates |-> u, fault |-> fault, err |-> r.err,
                       out |-> <<r.merged>>]
    /\ sPhase' = "done"
    /\ UNCHANGED <<cfgRemote, mergeVars, roundVars, concVars>>

\* merged, err := SyncWithRemote(localPath, remotePath), on its own
Reconcile ==
    /\ sPhase = "idle"
    /\ \E fault \in {NoFault, <<"local", "read">>, <<"remote", "read">>} :
         \E s \in SyncWithRemote(fs["local"], RemoteBytes(fs, cfgRemote),
                                 fault = <<"local", "read">>,
                                 fault = <<"remote", "read">>, now) :
           last' = [op |-> "sync", updates |-> EmptyDatabase, fault |-> fault,
                    err |-> s.err, out |-> <<s.db>>]
    /\ sPhase' = "done"
    /\ UNCHANGED <<fs, cfgRemote, now, mergeVars, roundVars, concVars>>

\* BackfillFromDeluge(config)
Backfill ==
    /\ sPhase = "idle"
    /\ \E torrents \in SUBSET Hashes, fault \in Faults, d \in 0..1 :
         \E r \in BackfillFromDeluge(fs, "local", cfgRemote, torrents, fault, now, d) :
           /\ fs' = r.fs
           /\ now' = now + d
           /\ last' = [op |-> "backfill", updates |-> EmptyDatabase, fault |-> fault,
                       err |-> r.err, out |-> <<torrents>>]
    /\ sPhase' = "done"
    /\ UNCHANGED <<cfgRemote, mergeVars, roundVars, concVars>>

\* SyncWithDeluge(config, false)
OrphanCleanup ==
    /\ sPhase = "idle"
    /\ \E torrents \in SUBSET Hashes, fault \in Faults, d \in 0..1 :
         \E r \in SyncWithDeluge(fs, "local", cfgRemote, torrents, fault, now, d) :
           /\ fs' = r.fs
           /\ now' = now + d
           /\ last' = [op |-> "cleanup", updates |-> EmptyDatabase, fault |-> fault,
                       err |-> r.err, out |-> <<torrents>>]
    /\ sPhase' = "done"
    /\ UNCHANGED <<cfgRemote, mergeVars, roundVars, concVars>>

StoreNext == Apply \/ Reconcile \/ Backfill \/ OrphanCleanup

SpecStore == StoreInit /\ [][StoreNext]_vars

(***************************************************************************)
(* SpecRound: SaveDatabaseLocal(path, db) of an input database (the empty  *)
(* one included), then LoadJSONDatabase(path).                             *)
(***************************************************************************)
RoundInit ==
    \E S \in {T \in SUBSET ({"la", "lr"} \X Hashes) : Cardinality(T) <= MaxEntries} :
      \E ids \in [S -> 0..MaxId], sl \in 0..1 :
        /\ rDb = InputDatabase(S, ids, "la", "lr", sl)
        /\ rOut = <<>>
        /\ rPhase = "input"
        /\ rAttempt = 0
        /\ rReads = 0
        /\ fs = NoFiles
        /\ cfgRemote = FALSE
        /\ now = 1
        /\ sPhase = "idle"
        /\ last = NoOperation
        /\ MergeIdle
        /\ ConcIdle

\* SaveDatabaseLocal(path, db); db is a pointer, so the caller sees the stamp
RoundSave ==
    /\ rPhase = "input"
    /\ \E fault \in {"none", "write", "rename"} :
         LET r == SaveDatabaseLocal(fs, "local", rDb, now, fault)
         IN  /\ fs' = r.fs
             /\ rDb' = r.db
             /\ last' = [op |-> "save", updates |-> EmptyDatabase,
                         fault |-> <<"local", fault>>, err |-> r.err,
                         out |-> <<>>]
    /\ rPhase' = "saved"
    /\ UNCHANGED <<rOut, rAttempt, rReads, cfgRemote, now, sPhase, mergeVars, concVars>>

\* loaded, err := LoadJSONDatabase(path)
RoundLoad ==
    /\ rPhase = "saved"
    /\ \E readFault \in BOOLEAN :
         \E l \in LoadJSONDatabase(fs["local"], FailsOf(readFault)) :
           rOut' = <<l>>
    /\ rPhase' = "loaded"
    /\ UNCHANGED <<rDb, rAttempt, rReads, storeVars, mergeVars, concVars>>

RoundNext == RoundSave \/ RoundLoad

SpecRound == RoundInit /\ [][RoundNext]_vars

(***************************************************************************)
(* SpecLoad: the local path holds a file of one of the three schemas, a    *)
(* file that is none of them, or nothing.  LoadJSONDatabase(path) runs in  *)
(* steps (the os.Stat, then one step per pass of its read loop) and may be *)
(* called once more on the same file; or MigrateFileFormat(path) runs.     *)
(***************************************************************************)
\* the input databases a current or legacy added/retry file holds
FileDatabases ==
    UNION {{InputDatabase(S, ids, "la", "lr", 0) : ids \in [S -> 0..MaxId]} :
              S \in {T \in SUBSET ({"la", "lr"} \X Hashes) : Cardinality(T) <= MaxEntries}}

\* the legacy flat-map files
FlatFiles ==
    UNION {{FlatDocument(S, W, large) : W \in SUBSET S, large \in BOOLEAN} :
              S \in (SUBSET Hashes) \ {{}}}

\* the legacy added/retry files: no metadata, entries without uuid and id
V1Files ==
    {V1Document(db, large) :
        db \in {d \in FileDatabases : \A i \in IdsOf(d) : i = 0}, large \in BOOLEAN}

\* the files of the current schema
CurrentFiles == {SavedBytes(db) : db \in FileDatabases}

\* files that are in none of the three schemas
OtherFiles ==
    {Garbage, LargeGarbage, EmptyBytes, Truncated, EmptyObject(FALSE), EmptyObject(TRUE)}

LoadInit ==
    \E file \in FlatFiles \cup V1Files \cup CurrentFiles \cup OtherFiles \cup {NoFile} :
        /\ fs = [NoFiles EXCEPT !["local"] = file]
        /\ cfgRemote = FALSE
        /\ now = 1
        /\ sPhase = "idle"
        /\ last = NoOperation
        /\ rDb = EmptyDatabase
        /\ rOut = <<>>
        /\ rPhase = "start"
        /\ rAttempt = 0
        /\ rReads = 0
        /\ MergeIdle
        /\ ConcIdle

\* LoadJSONDatabase(path) up to its loop: a path that does not exist is an empty
\* database
LoadStat ==
    /\ rPhase = "start"
    /\ IF fs["local"].fmt = "none"
       THEN /\ rOut' = <<[db |-> EmptyDatabase, err |-> "none"]>>
            /\ rPhase' = "returned"
       ELSE /\ rOut' = rOut
            /\ rPhase' = "reading"
    /\ UNCHANGED <<rDb, rAttempt, rReads, storeVars, mergeVars, concVars>>

\* one pass of the loop `for attempt := 0; attempt < 5; attempt++`, or its end
LoadAttempt ==
    /\ rPhase = "reading"
    /\ IF rAttempt >= MaxReadAttempts
       THEN /\ rOut' = <<AfterRetries>>
            /\ rPhase' = "returned"
            /\ UNCHANGED <<rAttempt, rReads>>
       ELSE \E readOk \in BOOLEAN :
              \E it \in LoadIteration(fs["local"], rAttempt, readOk) :
                /\ rReads' = rReads + 1
                /\ rOut' = it.out
                /\ rPhase' = IF it.done THEN "returned" ELSE "reading"
                /\ rAttempt' = IF it.done THEN rAttempt ELSE rAttempt + 1
    /\ UNCHANGED <<rDb, storeVars, mergeVars, concVars>>

\* a second LoadJSONDatabase(path) on the file the first call loaded
LoadAgain ==
    /\ rPhase = "returned"
    /\ rOut[1].err = "none"
    /\ \E l \in LoadJSONDatabase(fs["local"], 0) :
         rOut' = Append(rOut, l)
    /\ rPhase' = "again"
    /\ UNCHANGED <<rDb, rAttempt, rReads, storeVars, mergeVars, concVars>>

\* MigrateFileFormat(config.JSONPath)
Migrate ==
    /\ rPhase = "start"
    /\ \E readFault \in BOOLEAN, fault \in {"none", "write", "rename"} :
         \E r \in MigrateFileFormat(fs, "local", FailsOf(readFault), now, fault) :
           /\ fs' = r.fs
           /\ last' = [op |-> "migrate", updates |-> EmptyDatabase,
                       fault |-> IF readFault THEN <<"local", "read">>
                                 ELSE <<"local", fault>>,
                       err |-> r.err, out |-> <<r.db>>]
    /\ rPhase' = "migrated"
    /\ UNCHANGED <<rDb, rOut, rAttempt, rReads, cfgRemote, now, sPhase, mergeVars, concVars>>

LoadNext == LoadStat \/ LoadAttempt \/ LoadAgain \/ Migrate

SpecLoad == LoadInit /\ [][LoadNext]_vars

\* the process that runs LoadJSONDatabase keeps running: the sleeps between
\* the attempts end
SpecLoadFair == SpecLoad /\ WF_vars(LoadStat \/ LoadAttempt)

(***************************************************************************)
(* SpecOps: two operations on the store, one after the other, each a       *)
(* SaveJSONDatabase call or an orphan cleanup, on a disk whose local and   *)
(* remote files hold at most MaxInitial entries.                           *)
(***************************************************************************)
\* the entries the files may hold before the two calls
MaxInitial == 1

\* the phase after an operation: the operations of a behaviour are counted
NextPhase(phase) == IF phase = "idle" THEN "once" ELSE "twice"

\* the faults of an operation in a sequence: none, or a save that fails
OpsFaults == {NoFault, <<"local", "write">>, <<"remote", "write">>}

\* the updates of an operation in a sequence: one fresh entry (no id yet)
OpsUpdates == {Update(h, sec, 0) : h \in Hashes, sec \in {"added", "retry"}}

\* what a later operation's record keeps of the operation before it
Before(l) ==
    [op |-> l.op, fault |-> l.fault, err |-> l.err,
     removed |-> IF l.op = "cleanup" THEN l.out[2] ELSE {}]

OpsInit ==
    \E S \in {T \in SUBSET Slots : Cardinality(T) <= MaxInitial} :
      \E ids \in [S -> 1..MaxId], cfg \in BOOLEAN, copied \in BOOLEAN :
        LET ldb == InputDatabase(S, ids, "la", "lr", 0)
            rdb == InputDatabase(S, ids, "ra", "rr", 0)
        IN  /\ ~cfg => IsEmptyDatabase(rdb)
            /\ copied => cfg /\ IsEmptyDatabase(rdb) /\ ~IsEmptyDatabase(ldb)
            /\ fs = [NoFiles EXCEPT
                       !["local"] = IF IsEmptyDatabase(ldb) THEN NoFile
                                    ELSE SavedBytes(ldb),
                       !["remote"] = IF copied THEN SavedBytes(ldb)
                                     ELSE IF IsEmptyDatabase(rdb) THEN NoFile
                                     ELSE SavedBytes(rdb)]
            /\ cfgRemote = cfg
            /\ now = 1
            /\ sPhase = "idle"
            /\ last = NoOperation
            /\ MergeIdle
            /\ RoundIdle
            /\ ConcIdle

\* SaveJSONDatabase(config.JSONPath, updates, &config), one second after the
\* operation before it; out holds `merged` and the operation before
OpsApply ==
    /\ sPhase \in {"idle", "once"}
    /\ \E u \in OpsUpdates, fault \in OpsFaults :
         \E r \in SaveJSONDatabase(fs, cfgRemote, u, fault, now, 0) :
           /\ fs' = r.fs
           /\ last' = [op |-> "apply", updates |-> u, fault |-> fault, err |-> r.err,
                       out |-> <<r.merged, Before(last)>>]
    /\ now' = now + 1
    /\ sPhase' = NextPhase(sPhase)
    /\ UNCHANGED <<cfgRemote, mergeVars, roundVars, concVars>>

\* SyncWithDeluge(config, false); out holds the torrents Deluge reported, the
\* hashes that the call removed from the local file, and the operation before
OpsCleanup ==
    /\ sPhase \in {"idle", "once"}
    /\ \E torrents \in SUBSET Hashes, fault \in OpsFaults :
         \E r \in SyncWithDeluge(fs, "local", cfgRemote, torrents, fault, now, 0) :
           /\ fs' = r.fs
           /\ last' = [op |-> "cleanup", updates |-> EmptyDatabase, fault |-> fault,
                       err |-> r.err,
                       out |-> <<torrents,
                                 HashesOfBytes(fs["local"]) \ HashesOfBytes(r.fs["local"]),
                                 Before(last)>>]
    /\ now' = now + 1
    /\ sPhase' = NextPhase(sPhase)
    /\ UNCHANGED <<cfgRemote, mergeVars, roundVars, concVars>>

OpsNext == OpsApply \/ OpsCleanup

SpecOps == OpsInit /\ [][OpsNext]_vars

(***************************************************************************)
(* SpecHandle: one run of the program on a disk whose local file holds up  *)
(* to MaxEntries entries: AddMagnetToDeluge on a URI, ProcessRetryQueue    *)
(* (the load, then one step per pass of its loop), BackfillFromDeluge or   *)
(* SyncWithDeluge under a configuration with the default or another        *)
(* json_path.                                                              *)
(***************************************************************************)
\* the faults of a run of SpecHandle
HandleFaults == OpsFaults \cup {<<"local", "read">>}

\* the json_path of the configuration: the default one or another
JsonPaths == {"local", "custom"}

\* the file at the json_path a configuration file names, when one is there
CustomBytes == SavedBytes(InputDatabase({<<"la", "h1">>}, [x \in {<<"la", "h1">>} |-> 1],
                                        "la", "lr", 0))

HandleInit ==
    \E S \in {T \in SUBSET ({"la", "lr"} \X Hashes) : Cardinality(T) <= MaxEntries} :
      \E R \in {T \in SUBSET ({"ra", "rr"} \X Hashes) : Cardinality(T) <= MaxInitial} :
        \E ids \in [S -> 1..MaxId], cfg \in BOOLEAN, copied \in BOOLEAN, custom \in BOOLEAN :
          LET ldb == InputDatabase(S, ids, "la", "lr", 0)
              rdb == InputDatabase(R, [x \in R |-> 1], "ra", "rr", 0)
          IN  /\ ~cfg => R = {}
              /\ copied => cfg /\ R = {} /\ S # {}
              /\ fs = [NoFiles EXCEPT
                         !["local"] = IF S = {} THEN NoFile ELSE SavedBytes(ldb),
                         !["remote"] = IF copied THEN SavedBytes(ldb)
                                       ELSE IF R = {} THEN NoFile
                                       ELSE SavedBytes(rdb),
                         !["custom"] = IF custom THEN CustomBytes ELSE NoFile]
              /\ cfgRemote = cfg
              /\ now = 1
              /\ sPhase = "idle"
              /\ last = NoOperation
              /\ MergeIdle
              /\ RoundIdle
              /\ ConcIdle

\* AddMagnetToDeluge(magnetURI, config); out holds the URI, its hash, whether
\* Deluge was contacted and what it did
HandleAdd ==
    /\ sPhase = "idle"
    /\ \E uri \in MagnetUris, deluge \in DelugeOutcomes, uuid \in GeneratedUuids,
          fault \in HandleFaults :
         \E r \in AddMagnetToDeluge(fs, cfgRemote, uri, deluge, uuid, fault, now) :
           /\ fs' = r.fs
           /\ last' = [op |-> "add", updates |-> r.updates, fault |-> fault, err |-> r.err,
                       out |-> <<[uri |-> uri, hash |-> ExtractMagnetHash(uri),
                                  contacted |-> r.contacted,
                                  deluge |-> IF r.contacted THEN deluge ELSE "none"]>>]
    /\ sPhase' = "done"
    /\ UNCHANGED <<cfgRemote, now, mergeVars, roundVars, concVars>>

\* ProcessRetryQueue(config) up to its loop: the load, the empty queue, the
\* authentication and the connection
RetryStart ==
    /\ sPhase = "idle"
    /\ \E readFault \in BOOLEAN, deluge \in {"authFail", "connectFail", "connected"} :
         \E l \in LoadJSONDatabase(fs["local"], FailsOf(readFault)) :
           LET err == IF l.err # "none" THEN "load"
                      ELSE IF DOMAIN l.db.retry = {} THEN "none"
                      ELSE CASE deluge = "authFail" -> "auth"
                             [] deluge = "connectFail" -> "connect"
                             [] OTHER -> "none"
               loops == l.err = "none" /\ DOMAIN l.db.retry # {} /\ deluge = "connected"
           IN  /\ last' = [op |-> "retry", updates |-> EmptyDatabase,
                           fault |-> IF readFault THEN <<"local", "read">> ELSE NoFault,
                           err |-> err, out |-> <<>>]
               /\ rDb' = IF loops THEN l.db ELSE rDb
               /\ sPhase' = IF loops THEN "retrying" ELSE "done"
    /\ UNCHANGED <<fs, cfgRemote, now, rOut, rPhase, rAttempt, rReads, mergeVars, concVars>>

\* the hashes of the loaded retry section the loop has not visited yet
Pending == (DOMAIN rDb.retry) \ {rOut[i].hash : i \in 1..Len(rOut)}

\* one pass of `for hash, entry := range db.Retry` with its save and its sleep,
\* or the end of the loop; rOut holds the attempts made
RetryStep ==
    /\ sPhase = "retrying"
    /\ IF Pending = {}
       THEN /\ sPhase' = "done"
            /\ UNCHANGED <<fs, now, last, rOut>>
       ELSE \E hash \in Pending, deluge \in {"accepted", "inSession", "addFail"},
               fault \in OpsFaults :
              LET entry == [rDb.retry[hash] EXCEPT !.retry_count = @ + 1]
                  dbUpdate == UpdateWith(hash, entry, SectionFor(deluge))
              IN  \E r \in SaveJSONDatabase(fs, cfgRemote, dbUpdate, fault, now, 0) :
                    /\ fs' = r.fs
                    /\ rOut' = Append(rOut, [hash |-> hash, deluge |-> deluge,
                                             entry |-> entry, fault |-> fault,
                                             err |-> r.err])
                    /\ last' = [last EXCEPT !.updates = dbUpdate, !.fault = fault]
                    /\ now' = now + 1
                    /\ sPhase' = sPhase
    /\ UNCHANGED <<cfgRemote, rDb, rPhase, rAttempt, rReads, mergeVars, concVars>>

\* BackfillFromDeluge(config) under a configuration with json_path jsonPath; out
\* holds the torrents Deluge reported and the json_path
HandleBackfill ==
    /\ sPhase = "idle"
    /\ \E jsonPath \in JsonPaths, torrents \in SUBSET Hashes, fault \in OpsFaults :
         \E r \in BackfillFromDeluge(fs, jsonPath, cfgRemote, torrents, fault, now, 0) :
           /\ fs' = r.fs
           /\ last' = [op |-> "backfill", updates |-> EmptyDatabase, fault |-> fault,
                       err |-> r.err, out |-> <<torrents, jsonPath>>]
    /\ sPhase' = "done"
    /\ UNCHANGED <<cfgRemote, now, mergeVars, roundVars, concVars>>

\* SyncWithDeluge(config, false) under a configuration with json_path jsonPath
HandleCleanup ==
    /\ sPhase = "idle"
    /\ \E jsonPath \in JsonPaths, torrents \in SUBSET Hashes, fault \in OpsFaults :
         \E r \in SyncWithDeluge(fs, jsonPath, cfgRemote, torrents, fault, now, 0) :
           /\ fs' = r.fs
           /\ last' = [op |-> "cleanup", updates |-> EmptyDatabase, fault |-> fault,
                       err |-> r.err, out |-> <<torrents, jsonPath>>]
    /\ sPhase' = "done"
    /\ UNCHANGED <<cfgRemote, now, mergeVars, roundVars, concVars>>

HandleNext == HandleAdd \/ RetryStart \/ RetryStep \/ HandleBackfill \/ HandleCleanup

SpecHandle == HandleInit /\ [][HandleNext]_vars

(***************************************************************************)
(* SpecConc: two processes call SaveJSONDatabase on the same local and     *)
(* remote paths, each with an update that adds its own new hash, while a   *)
(* reader reads the local path.  A process takes one step per system call  *)
(* of SaveDatabaseLocal (open the temp file, write it, rename it); its     *)
(* whole sync (reads, merge, update loops) is one step.                    *)
(***************************************************************************)
\* the hash each process adds
WriterHash == [w \in Writers |-> IF w = "w1" THEN "n1" ELSE "n2"]

\* dbUpdate of AddMagnetToDeluge after Deluge accepted the magnet
WriterUpdate(w) ==
    [metadata |-> ZeroMetadata,
     added |-> [x \in {WriterHash[w]} |-> UpdateEntry(WriterHash[w], 0)],
     retry |-> EmptyMap]

ConcInit ==
    \E S \in {T \in SUBSET Slots : Cardinality(T) <= MaxInitial} :
      \E ids \in [S -> 1..MaxId], cfg \in BOOLEAN :
        LET ldb == InputDatabase(S, ids, "la", "lr", 0)
            rdb == InputDatabase(S, ids, "ra", "rr", 0)
        IN  /\ ~cfg => IsEmptyDatabase(rdb)
            /\ fs = [NoFiles EXCEPT
                       !["local"] = IF IsEmptyDatabase(ldb) THEN NoFile
                                    ELSE SavedBytes(ldb),
                       !["remote"] = IF IsEmptyDatabase(rdb) THEN NoFile
                                     ELSE SavedBytes(rdb)]
            /\ cfgRemote = cfg
            /\ now = 1
            /\ sPhase = "idle"
            /\ last = NoOperation
            /\ pc = [w \in Writers |-> <<"sync", "local">>]
            /\ mem = [w \in Writers |-> EmptyDatabase]
            /\ fd = [w \in Writers |-> "none"]
            /\ errs = [w \in Writers |-> "none"]
            /\ seen = <<>>
            /\ MergeIdle
            /\ RoundIdle

\* SaveJSONDatabase up to "Apply updates to merged database": SyncWithRemote, the
\* fallbacks, and the two update loops
Sync(w) ==
    /\ pc[w] = <<"sync", "local">>
    /\ \E s \in SyncOrLocal(fs["local"], RemoteBytes(fs, cfgRemote), FALSE, FALSE, now) :
         \E m \in PreferRemote(s, RemoteBytes(fs, cfgRemote), FALSE, cfgRemote) :
           \E u \in UpdateResults(m, WriterUpdate(w)) :
             mem' = [mem EXCEPT ![w] = u]
    /\ pc' = [pc EXCEPT ![w] = <<"open", "local">>]
    /\ UNCHANGED <<fd, errs, seen, storeVars, mergeVars, roundVars>>

\* SaveDatabaseLocal up to the open of os.WriteFile(tempPath, ...): the database
\* is stamped, and the temp file is created or, if it is there, truncated
Open(w) ==
    /\ pc[w][1] = "open"
    /\ LET path == pc[w][2]
       IN  /\ mem' = [mem EXCEPT ![w] = Stamp(mem[w], now)]
           /\ fs' = [fs EXCEPT ![TmpOf(path)] = EmptyBytes]
           /\ fd' = [fd EXCEPT ![w] = TmpOf(path)]
           /\ pc' = [pc EXCEPT ![w] = <<"write", path>>]
    /\ UNCHANGED <<errs, seen, cfgRemote, now, sPhase, last, mergeVars, roundVars>>

\* what a write of `data` at offset 0 leaves in a file that holds `old`: the
\* data, followed by what of a longer `old` lies beyond it
Overwrite(old, data) ==
    IF old.fmt = "empty" \/ old = data THEN {data} ELSE {data, Garbage}

\* the write and close of os.WriteFile: the bytes go to the file the descriptor
\* names, wherever a rename has moved it ("gone": it has no name any more)
Write(w) ==
    /\ pc[w][1] = "write"
    /\ IF fd[w] = "gone" THEN fs' = fs
       ELSE \E b \in Overwrite(fs[fd[w]], MarshalDatabase(mem[w])) :
              fs' = [fs EXCEPT ![fd[w]] = b]
    /\ fd' = [fd EXCEPT ![w] = "none"]
    /\ pc' = [pc EXCEPT ![w] = <<"rename", pc[w][2]>>]
    /\ UNCHANGED <<mem, errs, seen, cfgRemote, now, sPhase, last, mergeVars, roundVars>>

\* where SaveJSONDatabase goes after SaveDatabaseLocal(path) returned err
AfterSave(path, err) ==
    IF path = "local" /\ err = "none" /\ cfgRemote THEN <<"open", "remote">>
    ELSE <<"done", path>>

\* os.Rename(tempPath, path) and the return of SaveDatabaseLocal.  The rename
\* fails when the temp file is no longer there; the file that was at `path`
\* loses its name, and a descriptor open on the temp file follows it to `path`.
\* A failed local save is the error of SaveJSONDatabase, a failed remote save is
\* only logged.
Rename(w) ==
    /\ pc[w][1] = "rename"
    /\ LET path == pc[w][2]
           ok == fs[TmpOf(path)].fmt # "none"
       IN  /\ fs' = IF ok THEN [fs EXCEPT ![path] = fs[TmpOf(path)], ![TmpOf(path)] = NoFile]
                    ELSE fs
           /\ fd' = IF ok
                    THEN [x \in Writers |->
                            CASE fd[x] = TmpOf(path) -> path
                              [] fd[x] = path -> "gone"
                              [] OTHER -> fd[x]]
                    ELSE fd
           /\ errs' = IF ~ok /\ path = "local" THEN [errs EXCEPT ![w] = "save"] ELSE errs
           /\ pc' = [pc EXCEPT ![w] = AfterSave(path, IF ok THEN "none" ELSE "rename")]
    /\ UNCHANGED <<mem, seen, cfgRemote, now, sPhase, last, mergeVars, roundVars>>

\* a reader: os.ReadFile(localPath), as one step
Read ==
    /\ \E w \in Writers : pc[w][1] # "done"
    /\ seen' = <<fs["local"]>>
    /\ UNCHANGED <<pc, mem, fd, errs, storeVars, mergeVars, roundVars>>

ConcNext == \/ \E w \in Writers : Sync(w) \/ Open(w) \/ Write(w) \/ Rename(w)
            \/ Read

SpecConc == ConcInit /\ [][ConcNext]_vars

(***************************************************************************)
(* Claims about MergeDatabases, checked under SpecMerge.                   *)
(***************************************************************************)
HashesOf(db) == (DOMAIN db.added) \cup (DOMAIN db.retry)

\* each hash is in at most one section of the database
OneSection(db) == (DOMAIN db.added) \cap (DOMAIN db.retry) = {}

\* C1: MergeDatabases is lossless: the hashes of merge(A, B) are exactly the keys
\* of A.added, A.retry, B.added and B.retry.
C1_MergeLossless ==
    mPhase # "input" =>
        HashesOf(mMerged[1]) =
            (DOMAIN mLocal.added) \cup (DOMAIN mLocal.retry)
                \cup (DOMAIN mRemote.added) \cup (DOMAIN mRemote.retry)

\* a merge of two databases each of which holds a hash the other lacks
C1_Witness ==
    /\ mPhase = "merged"
    /\ \E h \in HashesOf(mLocal), g \in DOMAIN mRemote.retry :
         /\ h \notin HashesOf(mRemote)
         /\ g \notin HashesOf(mLocal)
         /\ {h, g} \subseteq HashesOf(mMerged[1])

\* entry e of the merged database is candidate c, with a fresh id if c had none
TakenFrom(e, c) ==
    /\ [e EXCEPT !.id = 0] = [c EXCEPT !.id = 0]
    /\ c.id # 0 => e.id = c.id

\* the added candidates of a hash
AddedCandidates(h) ==
    {mLocal.added[x] : x \in {h} \cap DOMAIN mLocal.added}
        \cup {mRemote.added[x] : x \in {h} \cap DOMAIN mRemote.added}

\* C2: an added candidate always outranks a retry candidate whatever their ids:
\* a hash with an added candidate lands in merged.added, with an entry taken from
\* an added candidate.
C2_AddedOutranksRetry ==
    mPhase = "merged" =>
        \A h \in (DOMAIN mLocal.added) \cup (DOMAIN mRemote.added) :
            /\ h \in DOMAIN mMerged[1].added
            /\ \E c \in AddedCandidates(h) : TakenFrom(mMerged[1].added[h], c)

\* C10: merge union-idempotence: for A and B with each hash in at most one
\* section, merge(merge(A, B), B) has the same hashes, each in the same section
\* with the same entry, as merge(A, B).
C10_MergeUnionIdempotent ==
    (mPhase = "again" /\ OneSection(mLocal) /\ OneSection(mRemote)) =>
        /\ mAgain[1].added = mMerged[1].added
        /\ mAgain[1].retry = mMerged[1].retry

\* a second merge of a hash that both inputs hold, one of them without an id
C10_Witness ==
    /\ mPhase = "again"
    /\ OneSection(mLocal) /\ OneSection(mRemote)
    /\ \E h \in HashesOf(mLocal) \cap HashesOf(mRemote) :
         /\ 0 \in IdsOf(mLocal) \cup IdsOf(mRemote)
         /\ h \in HashesOf(mAgain[1])

\* C11: merge is idempotent against its first input: for A (local) and B
\* (remote) with each hash in at most one section, merge(merge(A, B), A) has the
\* same hashes in the same sections with the same entries as merge(A, B).
C11_MergeIdempotentLocal ==
    (mPhase = "againLocal" /\ OneSection(mLocal) /\ OneSection(mRemote)) =>
        /\ mAgain[1].added = mMerged[1].added
        /\ mAgain[1].retry = mMerged[1].retry

\* no hash has two candidates of the same tier with equal id and different content
NoSameTierTie(local, remote) ==
    /\ \A h \in DOMAIN local.added \cap DOMAIN remote.added :
         local.added[h].id = remote.added[h].id => local.added[h] = remote.added[h]
    /\ \A h \in DOMAIN local.retry \cap DOMAIN remote.retry :
         local.retry[h].id = remote.retry[h].id => local.retry[h] = remote.retry[h]

\* C12: MergeDatabases is deterministic: for inputs in which no hash has two
\* same-tier candidates with equal id and different content, the merged maps
\* (every entry's id included) and the merged last_sequence are the same for
\* every order in which the union of hashes is iterated.
C12_MergeDeterministic ==
    (mPhase = "merged" /\ NoSameTierTie(mLocal, mRemote)) =>
        \A m \in MergeResults(mLocal, mRemote, MergeTime) :
            /\ m.added = mMerged[1].added
            /\ m.retry = mMerged[1].retry
            /\ m.metadata.last_sequence = mMerged[1].metadata.last_sequence

(***************************************************************************)
(* Claims about SaveJSONDatabase (apply), checked under SpecStore.         *)
(***************************************************************************)
\* the step is a SaveJSONDatabase call that returned nil
ApplySucceeded == last'.op = "apply" /\ last'.err = "none"

\* no hash is a key of both sections of the document
OneSectionBytes(bytes) ==
    bytes.fmt = "current" => (DOMAIN bytes.added) \cap (DOMAIN bytes.retry) = {}

\* C3: a hash appears in at most one of added/retry: from local and remote files
\* that satisfy this, an apply with any update (a hash placed in added or in
\* retry) writes a local database in which no hash is a key of both sections.
C3_OneSectionKept ==
    [][(ApplySucceeded /\ OneSectionBytes(fs["local"]) /\ OneSectionBytes(fs["remote"]))
         => OneSectionBytes(fs'["local"])]_vars

\* the local file exists and LoadJSONDatabase fails on it under the fault
LocalUnloadable(fsys, fault) ==
    /\ fsys["local"].fmt # "none"
    /\ \A l \in LoadJSONDatabase(fsys["local"], FailsOf(fault = <<"local", "read">>)) :
         l.err # "none"

\* C7: when the local file exists but cannot be loaded and there is no remote
\* copy to fall back on, apply stops with an error and leaves the local file
\* unchanged.
C7_UnloadableLocalKept ==
    [][(last'.op = "apply" /\ LocalUnloadable(fs, last'.fault)
          /\ RemoteBytes(fs, cfgRemote).fmt = "none")
         => (last'.err # "none" /\ fs'["local"] = fs["local"])]_vars

\* metadata.last_sequence of the document is at least every id in its maps
SequenceCoversIds(bytes) ==
    bytes.fmt = "current" =>
        \A id \in IdsOf([added |-> UnmarshalMap(bytes.added),
                         retry |-> UnmarshalMap(bytes.retry)]) :
            bytes.metadata.last_sequence >= id

\* C8: metadata.last_sequence is at least every id present in either map: if the
\* local and remote files satisfy this, the database written by apply satisfies
\* it too, for any update (one that carries a non-zero id included).
C8_SequenceCoversIds ==
    [][(ApplySucceeded /\ SequenceCoversIds(fs["local"]) /\ SequenceCoversIds(fs["remote"]))
         => SequenceCoversIds(fs'["local"])]_vars

\* the part of C8 about MergeDatabases alone: the merged database has
\* last_sequence at least every id in its maps
MergedSequenceCoversIds ==
    mPhase # "input" =>
        \A id \in IdsOf(mMerged[1]) : mMerged[1].metadata.last_sequence >= id

\* C9: metadata.last_sequence never decreases: the last_sequence apply writes to
\* the local file is at least the last_sequence the file held before.
C9_SequenceNeverDecreases ==
    [][(ApplySucceeded /\ fs["local"].fmt = "current")
         => fs'["local"].metadata.last_sequence >= fs["local"].metadata.last_sequence]_vars

(***************************************************************************)
(* Claims about the file on disk, checked under SpecRound and SpecConc.    *)
(***************************************************************************)
\* C4: round trip: for every database db (any number of entries in added and
\* retry, none included), SaveDatabaseLocal(path, db) followed by
\* LoadJSONDatabase(path) returns a database whose added and retry maps have
\* exactly the keys of db and whose entries equal db's entries field for field.
C4_RoundTrip ==
    (rPhase = "loaded" /\ last.err = "none" /\ rOut[1].err # "read")
      => /\ rOut[1].err = "none"
         /\ rOut[1].db.added = rDb.added
         /\ rOut[1].db.retry = rDb.retry

\* C5: when two SaveJSONDatabase calls on the same local and remote paths run
\* with interleaved steps, each adding a different new hash, then after both
\* have returned nil the local file holds both hashes: no update is lost.
C5_NoLostUpdate ==
    (\A w \in Writers : pc[w][1] = "done" /\ errs[w] = "none")
      => /\ fs["local"].fmt = "current"
         /\ \A w \in Writers :
              WriterHash[w] \in (DOMAIN fs["local"].added) \cup (DOMAIN fs["local"].retry)

\* C6: a reader never observes a partially written file: while SaveDatabaseLocal
\* calls on the path are in progress (two at the same time included), a read of
\* the path returns the complete previous content or the complete content one
\* of the saves wrote, never an empty or truncated document.
C6_ReaderSeesCompleteFile ==
    seen # <<>> => seen[1].fmt \in {"none", "current"}

\* C13: the database checksum is a digest of the added and retry content only,
\* metadata excluded: a database with the maps of the saved one and any other
\* metadata (last_sequence, last_modified, stored checksum) has the checksum
\* SaveDatabaseLocal computed and stored.
C13_ChecksumIgnoresMetadata ==
    (rPhase # "input" /\ rPhase # "idle") =>
        \A seq \in 0..MaxId, t \in 0..1, sum \in {<<>>, rDb.metadata.checksum} :
            ComputeChecksum([rDb EXCEPT !.metadata =
                               [last_sequence |-> seq, last_modified |-> t,
                                checksum |-> sum]])
                = rDb.metadata.checksum

\* C14: metadata.checksum reflects the content at the last successful write:
\* after SaveDatabaseLocal(path, db) succeeded, loading the file and recomputing
\* ComputeChecksum on the loaded database gives the checksum stored in the
\* file's metadata.
C14_StoredChecksumRecomputes ==
    (rPhase = "loaded" /\ last.err = "none" /\ rOut[1].err = "none")
      => ComputeChecksum(rOut[1].db) = fs["local"].metadata.checksum

\* C15: apply writes the identical result to both locations: after a
\* SaveJSONDatabase call in which the local write and the remote write both
\* succeeded, the local file and the remote file are byte-identical (their file
\* checksums are equal).
C15_LocalRemoteIdentical ==
    (sPhase = "done" /\ last.op = "apply" /\ last.err = "none" /\ cfgRemote
       /\ last.fault[2] \notin {"write", "rename"})
      => /\ fs["local"] = fs["remote"]
         /\ ComputeFileChecksum(fs["local"], FALSE)
              = ComputeFileChecksum(fs["remote"], FALSE)

\* C16: short-circuit: when the local and remote files are both readable and
\* byte-identical, SyncWithRemote returns the result of loading the local file
\* without a merge, and the returned metadata.last_sequence is the value stored
\* in the local file.
C16_ShortCircuitKeepsSequence ==
    (sPhase = "done" /\ last.op = "sync" /\ last.fault = NoFault /\ last.err = "none"
       /\ fs["local"].fmt \notin {"none", "garbage"}
       /\ fs["local"] = RemoteBytes(fs, cfgRemote))
      => /\ \E l \in LoadJSONDatabase(fs["local"], 0) : l.db = last.out[1]
         /\ last.out[1].metadata.last_sequence = fs["local"].metadata.last_sequence

\* C17: every write-triggering operation goes through the sync orchestrator,
\* which merges the local and the remote copy before committing: after a
\* backfill or an orphan cleanup with a readable and writable remote, a
\* retry-queue hash that was only in the remote file is still in the remote file.
C17_DelugeWritesKeepRemote ==
    [][(last'.op \in {"backfill", "cleanup"} /\ last'.fault = NoFault
          /\ last'.err = "none" /\ cfgRemote /\ fs["remote"].fmt = "current")
         => \A h \in (DOMAIN fs["remote"].retry) \ HashesOfBytes(fs["local"]) :
              h \in HashesOfBytes(fs'["remote"])]_vars

\* the remote path is configured and cannot be read, loaded or written in the run
RemoteUnavailable(fsys, fault) ==
    /\ cfgRemote
    /\ \/ fault \in {<<"remote", "read">>, <<"remote", "write">>, <<"remote", "rename">>}
       \/ fsys["remote"].fmt = "garbage"

\* LoadJSONDatabase succeeds on the local path under the fault
LocalLoadable(fsys, fault) ==
    \A l \in LoadJSONDatabase(fsys["local"], FailsOf(fault = <<"local", "read">>)) :
        l.err = "none"

\* C18: remote unavailability is never fatal and local stays authoritative: when
\* the local file is loadable and the remote path cannot be read or written,
\* SaveJSONDatabase returns nil and the written local file holds every hash of
\* the previous local file and every hash of the updates; a failed local write
\* is returned as an error and nothing is written at the remote path.
C18_RemoteFailureNotFatal ==
    [][(last'.op = "apply" /\ LocalLoadable(fs, last'.fault))
         => /\ (RemoteUnavailable(fs, last'.fault) /\ last'.fault[1] # "local")
                 => /\ last'.err = "none"
                    /\ HashesOfBytes(fs["local"]) \cup HashesOf(last'.updates)
                         \subseteq HashesOfBytes(fs'["local"])
            /\ last'.fault \in {<<"local", "write">>, <<"local", "rename">>}
                 => /\ last'.err # "none"
                    /\ fs'["remote"] = fs["remote"]
                    /\ fs'["remote.tmp"] = fs["remote.tmp"]]_vars

\* an apply whose remote write failed after the local write: the local file
\* holds the update's hash and one more
C18_Witness ==
    /\ sPhase = "done" /\ last.op = "apply" /\ last.err = "none"
    /\ last.fault = <<"remote", "write">>
    /\ fs["remote.tmp"].fmt = "truncated"
    /\ HashesOf(last.updates) \subseteq HashesOfBytes(fs["local"])
    /\ HashesOfBytes(fs["local"]) # HashesOf(last.updates)

\* C19: a failed save cleans up after itself: whenever SaveDatabaseLocal returns
\* an error (the write of the temp file failed, or the rename did), the
\* destination holds what it held before the call and no file remains at
\* path + ".tmp"; after a successful save no temp file remains either.
C19_FailedSaveCleansUp ==
    [][last'.op = "save"
         => /\ last'.err # "none" => fs'["local"] = fs["local"]
            /\ fs'["local.tmp"].fmt = "none"]_vars

\* C20: LoadJSONDatabase on a path that does not exist returns a database with
\* empty added and retry maps and no error, and does not create the file.
C20_LoadMissingIsEmpty ==
    [][(rPhase' = "loaded" /\ fs["local"].fmt = "none")
         => /\ rOut'[1].err = "none"
            /\ DOMAIN rOut'[1].db.added = {}
            /\ DOMAIN rOut'[1].db.retry = {}
            /\ fs'["local"].fmt = "none"]_vars

\* a load of the path after a save of a database with entries failed, so that
\* the path does not exist
C20_Witness ==
    /\ rPhase = "loaded"
    /\ last.op = "save" /\ last.err # "none"
    /\ ~IsEmptyDatabase(rDb)
    /\ fs["local"].fmt = "none"
    /\ rOut[1].err = "none"

\* the bytes give no entry under any of the three schemas: each parser fails
\* or parses them to an empty result
NoEntriesUnderAll(bytes) ==
    LET cur == ParseCurrent(bytes)
        v0 == ParseV0(bytes)
        v1 == ParseV1(bytes)
    IN  /\ ~cur.ok \/ IsEmptyDatabase(cur.db)
        /\ ~v0.ok \/ DOMAIN v0.map = {}
        /\ ~v1.ok \/ (DOMAIN v1.added = {} /\ DOMAIN v1.retry = {})

\* C21: LoadJSONDatabase on an existing file larger than 1024 bytes that was read
\* and that fails to parse under all three schemas, or parses to zero entries
\* under all three, returns a format error and never an empty database.
C21_LargeUnrecognizedIsError ==
    (rPhase = "returned" /\ Large(fs["local"]) /\ NoEntriesUnderAll(fs["local"])
       /\ rOut[1].err # "read")
      => rOut[1].err = "format"

\* a large file holding the document {} was read at the first attempt and
\* refused
C21_Witness ==
    /\ rPhase = "returned"
    /\ fs["local"] = EmptyObject(TRUE)
    /\ rReads = 1
    /\ rOut[1].err = "format"

\* C22: LoadJSONDatabase on an existing path makes at most 5 read attempts; a
\* read that fails on attempts 1..k (k < 5) and then succeeds goes on to format
\* detection; if all 5 reads fail the call returns the read error; a parse
\* failure is never retried (no read follows a read that succeeded); and the
\* call always returns.
C22_BoundedReads ==
    /\ [](rReads <= 5)
    /\ [](rPhase = "reading" => rAttempt = rReads)
    /\ []((rPhase = "returned" /\ fs["local"].fmt # "none") =>
            IF rOut[1].err = "read"
            THEN rReads = 5 /\ rAttempt = 4
            ELSE /\ rReads = rAttempt + 1
                 /\ rOut[1] \in ParseResults(fs["local"]))
    /\ (rPhase = "reading") ~> (rPhase = "returned")

\* two reads failed, the third succeeded, and the bytes were refused at once
C22_Witness ==
    /\ rPhase = "returned"
    /\ rReads = 3
    /\ rAttempt = 2
    /\ rOut[1].err = "format"

\* C23: flat-map migration preserves count: loading a legacy flat map with N >= 1
\* entries yields a database with exactly N added entries keyed by the same
\* hashes, an empty retry map, every entry with a non-empty uuid and a distinct
\* id in 1..N, metadata.last_sequence = N, and for an entry without uri the uri
\* magnet:?xt=urn:btih:<hash>.
C23_FlatMigrationPreservesCount ==
    (rPhase = "returned" /\ fs["local"].fmt = "flat" /\ rOut[1].err # "read")
      => LET db == rOut[1].db
             src == fs["local"].entries
             N == Cardinality(DOMAIN src)
         IN  /\ rOut[1].err = "none"
             /\ DOMAIN db.added = DOMAIN src
             /\ DOMAIN db.retry = {}
             /\ \A h \in DOMAIN db.added :
                  /\ db.added[h].uuid # ""
                  /\ db.added[h].id \in 1..N
                  /\ "uri" \notin DOMAIN src[h]
                       => db.added[h].uri = <<"magnet:?xt=urn:btih:", h>>
                  /\ "uri" \in DOMAIN src[h] => db.added[h].uri = src[h].uri
             /\ \A h1, h2 \in DOMAIN db.added :
                  h1 # h2 => db.added[h1].id # db.added[h2].id
             /\ db.metadata.last_sequence = N

\* a flat map with two entries, one of them without uri, was loaded
C23_Witness ==
    /\ rPhase = "returned"
    /\ fs["local"].fmt = "flat"
    /\ Cardinality(DOMAIN fs["local"].entries) = 2
    /\ \E h \in DOMAIN fs["local"].entries : "uri" \notin DOMAIN fs["local"].entries[h]
    /\ rOut[1].err = "none"
    /\ Cardinality(DOMAIN rOut[1].db.added) = 2

\* C24: loading a legacy added/retry document without metadata, whose entries
\* have no ids or uuids (at least one map non-empty), yields a database in which
\* every entry of added and retry has a generated non-empty uuid and a generated
\* id, the ids distinct in 1..N for N entries, with metadata.last_sequence = N.
C24_LegacyAddedRetryGetsIds ==
    (rPhase = "returned" /\ fs["local"].fmt = "v1" /\ rOut[1].err # "read"
       /\ (DOMAIN fs["local"].added # {} \/ DOMAIN fs["local"].retry # {}))
      => LET db == rOut[1].db
             N == Cardinality(DOMAIN db.added) + Cardinality(DOMAIN db.retry)
             all == {db.added[h] : h \in DOMAIN db.added}
                      \cup {db.retry[h] : h \in DOMAIN db.retry}
         IN  /\ rOut[1].err = "none"
             /\ DOMAIN db.added = DOMAIN fs["local"].added
             /\ DOMAIN db.retry = DOMAIN fs["local"].retry
             /\ \A e \in all : e.uuid # "" /\ e.id \in 1..N
             /\ Cardinality({e.id : e \in all}) = N
             /\ db.metadata.last_sequence = N

\* C25: after MigrateFileFormat(path) succeeds on a file in any of the three
\* recognized schemas, every entry in the added and retry maps of the file at
\* path has a non-empty uuid, and the file is in the current schema with the same
\* hashes in the same sections as the database that was loaded.
C25_MigratedEntriesHaveUuid ==
    [][(rPhase' = "migrated" /\ last'.err = "none"
          /\ fs["local"].fmt \in {"current", "v1", "flat"})
         => LET file == fs'["local"]
                loaded == last'.out[1]
            IN  /\ file.fmt = "current"
                /\ \A h \in DOMAIN file.added :
                     "uuid" \in DOMAIN file.added[h] /\ file.added[h].uuid # ""
                /\ \A h \in DOMAIN file.retry :
                     "uuid" \in DOMAIN file.retry[h] /\ file.retry[h].uuid # ""
                /\ DOMAIN file.added = DOMAIN loaded.added
                /\ DOMAIN file.retry = DOMAIN loaded.retry]_vars

\* a migration wrote a file after loading an added entry and a retry entry that
\* had no uuid
C25_Witness ==
    /\ rPhase = "migrated"
    /\ last.err = "none"
    /\ \E h \in DOMAIN last.out[1].added : last.out[1].added[h].uuid = ""
    /\ \E h \in DOMAIN last.out[1].retry : last.out[1].retry[h].uuid = ""
    /\ fs["local"].fmt = "current"
    /\ DOMAIN fs["local"].added # {}
    /\ DOMAIN fs["local"].retry # {}

\* C26: an entry's uuid is generated once and is stable: a load changes no
\* stored uuid (it writes nothing, and returns the uuid the file records), and
\* two loads of the same file, an unmigrated legacy file included, give each
\* entry the same uuid.
C26_UuidStable ==
    (rPhase = "again" /\ rOut[2].err = "none")
      => /\ \A h \in (DOMAIN rOut[1].db.added) \cap (DOMAIN rOut[2].db.added) :
              rOut[1].db.added[h].uuid = rOut[2].db.added[h].uuid
         /\ \A h \in (DOMAIN rOut[1].db.retry) \cap (DOMAIN rOut[2].db.retry) :
              rOut[1].db.retry[h].uuid = rOut[2].db.retry[h].uuid
         /\ fs["local"].fmt = "current"
              => \A h \in DOMAIN fs["local"].added :
                   rOut[2].db.added[h].uuid = fs["local"].added[h].uuid

\* the candidates of hash h that exist, as <<position in the fixed order, candidate>>
ExistingCandidates(h) ==
    LET cands == Candidates(mLocal, mRemote, h)
    IN  {<<i, cands[i]>> : i \in {j \in 1..Len(cands) : cands[j].exists}}

\* C27: in MergeDatabases, among the candidates of the same tier for a hash the
\* one with the strictly higher id wins, and when same-tier candidates have equal
\* ids the one that comes first in the fixed order local-added, local-retry,
\* remote-added, remote-retry wins: the merged entry of a hash is taken from a
\* candidate of its section that no candidate of that section beats by id, and
\* that no earlier candidate of that section equals in id.
C27_SameTierHigherIdWins ==
    mPhase = "merged" =>
        \A h \in AllHashes(mLocal, mRemote) :
            LET inAdded == h \in DOMAIN mMerged[1].added
                e == IF inAdded THEN mMerged[1].added[h] ELSE mMerged[1].retry[h]
                tier == {c \in ExistingCandidates(h) : c[2].isAdded = inAdded}
            IN  \E w \in tier :
                  /\ TakenFrom(e, w[2].entry)
                  /\ \A c \in tier :
                       /\ c[2].entry.id <= w[2].entry.id
                       /\ c[2].entry.id = w[2].entry.id => w[1] <= c[1]

\* C28: if hash H is in the retry section of the reconciled database and the
\* updates passed to apply contain H in added, then after SaveJSONDatabase the
\* written local database has H in added and not in retry, and every other hash
\* keeps its section.
C28_AddedUpdateLeavesRetry ==
    (sPhase = "done" /\ last.op = "apply" /\ last.err = "none")
      => LET merged == last.out[1]
             file == fs["local"]
         IN  \A h \in (DOMAIN last.updates.added) \cap (DOMAIN merged.retry) :
               /\ file.fmt = "current"
               /\ h \in DOMAIN file.added
               /\ h \notin DOMAIN file.retry
               /\ (DOMAIN file.added) \ {h} = (DOMAIN merged.added) \ {h}
               /\ (DOMAIN file.retry) \ {h} = (DOMAIN merged.retry) \ {h}

\* an apply moved a hash from retry to added while another hash stayed in retry
C28_Witness ==
    /\ sPhase = "done" /\ last.op = "apply" /\ last.err = "none"
    /\ \E h \in DOMAIN last.updates.added :
         /\ h \in DOMAIN last.out[1].retry
         /\ h \notin DOMAIN last.out[1].added
         /\ h \in DOMAIN fs["local"].added
         /\ \E g \in (DOMAIN last.out[1].retry) \ {h} : g \in DOMAIN fs["local"].retry

\* the databases of a merge run: the two inputs and the results so far
MergeRunDatabases ==
    {mLocal, mRemote} \cup {mMerged[i] : i \in DOMAIN mMerged}
        \cup {mAgain[i] : i \in DOMAIN mAgain}

RemoteLoadable(fsys, fault) ==
    \A r \in LoadJSONDatabase(RemoteBytes(fsys, cfgRemote),
                              FailsOf(fault = <<"remote", "read">>)) :
        r.err = "none"

\* C30: apply loses no data when both copies are loadable: if before
\* SaveJSONDatabase the local and the remote file both load without error, then
\* after a successful call every hash that was in the local file, in the remote
\* file or in the updates is (in added or retry) in the written local file.
C30_ApplyLosesNoData ==
    [][(last'.op = "apply" /\ last'.err = "none"
          /\ LocalLoadable(fs, last'.fault) /\ RemoteLoadable(fs, last'.fault))
         => HashesOfBytes(fs["local"]) \cup HashesOfBytes(RemoteBytes(fs, cfgRemote))
              \cup HashesOf(last'.updates)
              \subseteq HashesOfBytes(fs'["local"])]_vars

\* an apply wrote a local file that holds an entry of the previous local file and,
\* at another hash, an entry that only the remote file had
C30_Witness ==
    /\ sPhase = "done" /\ last.op = "apply" /\ last.err = "none"
    /\ cfgRemote
    /\ fs["local"].fmt = "current"
    /\ \E g, h \in HashesOfBytes(fs["local"]) :
         /\ g # h
         /\ g \in DOMAIN fs["local"].added /\ fs["local"].added[g].title = "la"
         /\ h \in DOMAIN fs["local"].retry /\ fs["local"].retry[h].title = "rr"

\* the entries of a merged database, each with its section and hash
EntriesOf(db) ==
    {<<"added", h, db.added[h]>> : h \in DOMAIN db.added}
        \cup {<<"retry", h, db.retry[h]>> : h \in DOMAIN db.retry}

\* the winning entry of hash h carried no id, so the merge gave it a fresh one
FreshlyNumbered(h) ==
    LET w == PickWinner(Candidates(mLocal, mRemote, h), 1, NoWinner)
    IN  w.winnerFound /\ w.winner.id = 0

\* C31: MergeDatabases never hands out an id that is already in use: every
\* freshly assigned id differs from the id of every other entry of the merged
\* result, for every iteration order of the hashes.
C31_FreshIdsUnused ==
    mPhase = "merged" =>
        \A x, y \in EntriesOf(mMerged[1]) :
            (x[2] # y[2] /\ FreshlyNumbered(x[2])) => x[3].id # y[3].id

\* the entries a database holds for hash h, in either section
EntriesAt(db, h) ==
    {db.added[x] : x \in {h} \cap DOMAIN db.added}
        \cup {db.retry[x] : x \in {h} \cap DOMAIN db.retry}

\* no hash has candidates in both databases with equal id and different content
NoSameIdConflict(a, b) ==
    \A h \in HashesOf(a) \cap HashesOf(b) :
        \A x \in EntriesAt(a, h), y \in EntriesAt(b, h) : x.id = y.id => x = y

\* the same winning entry: equal but for an id that the merge handed out
SameWinner(x, y) ==
    /\ [x EXCEPT !.id = 0] = [y EXCEPT !.id = 0]
    /\ \/ x.id = y.id
       \/ \E h \in Hashes : x.hash = h /\ FreshlyNumbered(h)

\* C32: outside content-differing same-id conflicts the merge is commutative: for
\* A and B with each hash in at most one section per database and no hash with
\* candidates of equal id and different content in A and B, merge(A, B) and
\* merge(B, A) place every hash in the same section with the same winning entry.
C32_MergeCommutative ==
    (mPhase = "swapped" /\ OneSection(mLocal) /\ OneSection(mRemote)
       /\ NoSameIdConflict(mLocal, mRemote))
      => /\ DOMAIN mAgain[1].added = DOMAIN mMerged[1].added
         /\ DOMAIN mAgain[1].retry = DOMAIN mMerged[1].retry
         /\ \A h \in DOMAIN mMerged[1].added :
              SameWinner(mMerged[1].added[h], mAgain[1].added[h])
         /\ \A h \in DOMAIN mMerged[1].retry :
              SameWinner(mMerged[1].retry[h], mAgain[1].retry[h])

\* the sections of the file at path p hold every hash the file at path q holds,
\* in the same section
HoldsAllOf(fsys, p, q) ==
    /\ fsys[p].fmt = "current"
    /\ fsys[q].fmt = "current"
    /\ DOMAIN fsys[q].added \subseteq DOMAIN fsys[p].added
    /\ DOMAIN fsys[q].retry \subseteq DOMAIN fsys[p].retry

\* C33: a missed remote write is repaired by the next operation: if the remote
\* write of one SaveJSONDatabase call fails (the local write succeeded), then
\* after the next SaveJSONDatabase call during which the remote path is readable
\* and writable, every hash of the local file is in the remote file as well, in
\* the same section.
C33_MissedRemoteWriteRepaired ==
    [][(cfgRemote
          /\ last.op = "apply" /\ last.err = "none" /\ last.fault = <<"remote", "write">>
          /\ last'.op = "apply" /\ last'.err = "none" /\ last'.fault = NoFault)
         => HoldsAllOf(fs', "remote", "local")]_vars

\* the second apply ran without fault after an apply whose remote write failed,
\* and the remote file holds both updates
C33_Witness ==
    /\ sPhase = "twice" /\ cfgRemote
    /\ last.op = "apply" /\ last.err = "none" /\ last.fault = NoFault
    /\ last.out[2].op = "apply" /\ last.out[2].err = "none"
    /\ last.out[2].fault = <<"remote", "write">>
    /\ Cardinality(HashesOfBytes(fs["remote"])) = 2
    /\ \A h \in HashesOfBytes(fs["remote"]) :
         h \in DOMAIN fs["remote"].added => fs["remote"].added[h].title = "up"

\* C34: deletion by orphan cleanup is durable: after SyncWithDeluge (not a dry
\* run) removed hash H from the local file, H does not come back into the local
\* file by a later SaveJSONDatabase call whose updates do not contain H, also
\* when the remote write of the cleanup failed.
C34_CleanupIsDurable ==
    [][(last.op = "cleanup" /\ last.err = "none" /\ last'.op = "apply")
         => \A h \in last.out[2] \ HashesOf(last'.updates) :
              h \notin HashesOfBytes(fs'["local"])]_vars

\* C35: for a path that exists and is readable, LoadJSONDatabase never returns an
\* empty database: it returns a database with at least one entry or an error,
\* whatever the size of the file (a file of at most 1024 bytes without an entry
\* under every schema, such as {}, is an error too).
C35_ExistingFileNeverEmpty ==
    (rPhase \in {"returned", "again"} /\ fs["local"].fmt # "none")
      => \A i \in 1..Len(rOut) :
           \/ rOut[i].err # "none"
           \/ DOMAIN rOut[i].db.added # {}
           \/ DOMAIN rOut[i].db.retry # {}

\* a small file holding the document {} was read at the first attempt and refused
C35_Witness ==
    /\ rPhase = "returned"
    /\ fs["local"] = EmptyObject(FALSE)
    /\ rReads = 1
    /\ rOut[1].err = "format"
    /\ IsEmptyDatabase(rOut[1].db)

\* C36: entry lifecycle on ingestion: when AddMagnetToDeluge handles a valid URI
\* whose hash H is in neither section of the local database and the store is
\* writable, then afterwards H is in exactly one section of the local file: in
\* added if Deluge accepted it or reported it as already in session, and in retry
\* with retry_count 1 if authentication, connection or the add call failed for
\* another reason (authentication and connection failures also return an error).
C36_IngestionLifecycle ==
    (last.op = "add" /\ last.out[1].contacted /\ last.fault = NoFault)
      => LET H == last.out[1].hash
             deluge == last.out[1].deluge
             file == fs["local"]
         IN  /\ file.fmt = "current"
             /\ IF deluge \in {"accepted", "inSession"}
                THEN H \in DOMAIN file.added /\ H \notin DOMAIN file.retry
                ELSE /\ H \in DOMAIN file.retry /\ H \notin DOMAIN file.added
                     /\ UnmarshalMap(file.retry)[H].retry_count = 1
             /\ deluge = "authFail" => last.err = "auth"
             /\ deluge = "connectFail" => last.err = "connect"

\* the database a handler loads: the local file loads, and `hash` is in one of
\* the sections of what it loads to
LoadsWith(bytes, fault, hash) ==
    \E l \in LoadJSONDatabase(bytes, FailsOf(fault = <<"local", "read">>)) :
      l.err = "none" /\ hash \in HashesOf(l.db)

\* C38: re-submitting a known link is a no-op: when AddMagnetToDeluge is called
\* with a valid URI whose hash is already in the added or the retry section of
\* the local database, it returns success without contacting Deluge and without
\* writing the local or the remote file (both files are unchanged); a URI that
\* fails validation or yields no hash returns an error with the same frame.
C38_KnownLinkIsNoOp ==
    [][last'.op = "add"
         => LET uri == last'.out[1].uri
                hash == last'.out[1].hash
            IN  /\ (ValidateMagnetURI(uri) /\ hash # ""
                     /\ LoadsWith(fs["local"], last'.fault, hash))
                    => last'.err = "none" /\ ~last'.out[1].contacted /\ fs' = fs
                /\ (~ValidateMagnetURI(uri) \/ hash = "")
                    => last'.err # "none" /\ ~last'.out[1].contacted /\ fs' = fs]_vars

\* a URI that spells in upper case a hash of the retry section was handled
\* without a request to Deluge
C38_Witness ==
    /\ last.op = "add" /\ last.err = "none"
    /\ last.out[1].uri = <<"magnet:?xt=urn:btih:", "H1">>
    /\ ~last.out[1].contacted
    /\ fs["local"].fmt = "current"
    /\ "h1" \in DOMAIN fs["local"].retry
    /\ UnmarshalMap(fs["local"].retry)["h1"].retry_count = 1
    /\ cfgRemote /\ fs["remote"].fmt = "none"

\* the attempts ProcessRetryQueue made
Attempts == {rOut[i] : i \in 1..Len(rOut)}

\* ProcessRetryQueue returned after its loop
RetryDone == last.op = "retry" /\ sPhase = "done" /\ Len(rOut) > 0

\* C37: ProcessRetryQueue attempts every hash that was in the local retry section
\* at its start exactly once and then terminates; for each such hash the
\* retry_count written is the loaded retry_count plus 1; with no remote copy
\* configured, a hash whose attempt succeeded or was reported as already in
\* session ends in added and not in retry, and a hash whose attempt failed
\* otherwise stays in retry and is not in added.  (Termination is stated by its
\* variant: each pass takes one hash out of the finite set of hashes to visit,
\* and the call returns when none is left.)
C37_RetryQueueRuns ==
    /\ [][sPhase' = "retrying" /\ sPhase = "idle"
            => DOMAIN rDb'.retry = DOMAIN fs["local"].retry]_vars
    /\ [](\A i, j \in 1..Len(rOut) : rOut[i].hash = rOut[j].hash => i = j)
    /\ [](RetryDone => {a.hash : a \in Attempts} = DOMAIN rDb.retry)
    /\ [](sPhase = "retrying" => Len(rOut) + Cardinality(Pending)
                                   = Cardinality(DOMAIN rDb.retry))
    /\ [][sPhase = "retrying" /\ Pending = {} => sPhase' = "done"]_vars
    /\ [][(Len(rOut') = Len(rOut) + 1 /\ rOut'[Len(rOut')].err = "none")
            => LET a == rOut'[Len(rOut')]
                   sec == IF a.deluge = "addFail" THEN fs'["local"].retry
                          ELSE fs'["local"].added
               IN  /\ a.hash \in DOMAIN sec
                   /\ UnmarshalMap(sec)[a.hash].retry_count
                        = rDb.retry[a.hash].retry_count + 1]_vars
    /\ [](RetryDone /\ ~cfgRemote /\ (\A a \in Attempts : a.fault = NoFault)
            => \A a \in Attempts :
                 IF a.deluge = "addFail"
                 THEN /\ a.hash \in DOMAIN fs["local"].retry
                      /\ a.hash \notin DOMAIN fs["local"].added
                 ELSE /\ a.hash \in DOMAIN fs["local"].added
                      /\ a.hash \notin DOMAIN fs["local"].retry)

\* the keys of the added section of a file of the current schema, else none
AddedOfBytes(bytes) == IF bytes.fmt = "current" THEN DOMAIN bytes.added ELSE {}

\* C39: backfill and orphan cleanup write their result back to the local path
\* they loaded the database from: for every configuration, the file that
\* BackfillFromDeluge and SyncWithDeluge (not a dry run) save is the file at the
\* json_path of the configuration, which they loaded, so a following load of that
\* path observes the backfilled entries and the removals.
C39_SavedWhereLoaded ==
    [][(last'.op \in {"backfill", "cleanup"} /\ last'.err = "none")
         => LET torrents == last'.out[1]
                jsonPath == last'.out[2]
            IN  \A l \in LoadJSONDatabase(fs'[jsonPath], 0) :
                  IF last'.op = "backfill"
                  THEN torrents # {} => l.err = "none" /\ torrents \subseteq DOMAIN l.db.added
                  ELSE \A h \in AddedOfBytes(fs[jsonPath]) \ torrents :
                         h \notin DOMAIN l.db.added]_vars

====
